---- MODULE Spec2Model ----
(***************************************************************************)
(* Model of the climatological analysis program:                           *)
(*   src/src/climatological_analyzer.py   ClimatologicalAnalyzer           *)
(*   src/src/weather_query_processor.py   WeatherQueryProcessor            *)
(*   src/src/meteomatics_client.py        MeteomaticsClient                *)
(*                                                                         *)
(* Numbers.  A sample entry or a statistic is an extended rational: a      *)
(* reduced fraction, or one of NaN, +inf, -inf, with the IEEE-754 rules    *)
(* for comparison and arithmetic on the non-finite values (signed zeros    *)
(* are not distinguished).  The quotients count / n_years and              *)
(* 1 / probability, for which the exact value of a floating-point product  *)
(* matters, are binary64 values with a 53-bit significand and              *)
(* round-to-nearest-even (see the Double section).                         *)
(***************************************************************************)
EXTENDS Integers, Sequences, FiniteSets, TLC

(***************************************************************************)
(* Bounds of the model.                                                    *)
(***************************************************************************)
\* longest raw input sequence handed to the constructor
MaxLen == 3

(***************************************************************************)
(* Extended rationals.                                                     *)
(***************************************************************************)
RECURSIVE GCD(_, _)
GCD(a, b) == IF b = 0 THEN a ELSE GCD(b, a % b)

Abs(i) == IF i < 0 THEN 0 - i ELSE i

SignOf(i) == IF i < 0 THEN -1 ELSE IF i = 0 THEN 0 ELSE 1

NaN == [k |-> "nan", n |-> 0, d |-> 1]

PInf == [k |-> "pinf", n |-> 0, d |-> 1]

NInf == [k |-> "ninf", n |-> 0, d |-> 1]

\* the rational n/d (d # 0) in lowest terms with a positive denominator
Rat(n, d) ==
    LET Lowest(g) == [k |-> "fin", n |-> ((IF d < 0 THEN -1 ELSE 1) * n) \div g,
                      d |-> Abs(d) \div g]
    IN  Lowest(GCD(Abs(n), Abs(d)))

Fin(i) == [k |-> "fin", n |-> i, d |-> 1]

IsNaN(x) == x.k = "nan"

IsFinite(x) == x.k = "fin"

IsInf(x) == x.k \in {"pinf", "ninf"}

\* sign of a value that is not NaN: -1, 0 or 1
Sgn(x) == IF x.k = "pinf" THEN 1 ELSE IF x.k = "ninf" THEN -1 ELSE SignOf(x.n)

InfOfSign(s) == IF s > 0 THEN PInf ELSE NInf

\* x < y; every comparison with NaN is false
Lt(x, y) ==
    IF IsNaN(x) \/ IsNaN(y) THEN FALSE
    ELSE IF x.k = "ninf" THEN y.k # "ninf"
    ELSE IF x.k = "pinf" THEN FALSE
    ELSE IF y.k = "ninf" THEN FALSE
    ELSE IF y.k = "pinf" THEN TRUE
    ELSE x.n * y.d < y.n * x.d

\* x == y; NaN equals nothing
Eq(x, y) == ~IsNaN(x) /\ ~IsNaN(y) /\ x = y

Gt(x, y) == Lt(y, x)

Le(x, y) == Lt(x, y) \/ Eq(x, y)

Ge(x, y) == Le(y, x)

Neg(x) ==
    IF x.k = "pinf" THEN NInf
    ELSE IF x.k = "ninf" THEN PInf
    ELSE IF x.k = "nan" THEN NaN
    ELSE Rat(0 - x.n, x.d)

Add(x, y) ==
    IF IsNaN(x) \/ IsNaN(y) THEN NaN
    ELSE IF IsInf(x) /\ IsInf(y) THEN (IF x.k = y.k THEN x ELSE NaN)
    ELSE IF IsInf(x) THEN x
    ELSE IF IsInf(y) THEN y
    ELSE Rat(x.n * y.d + y.n * x.d, x.d * y.d)

Sub(x, y) == Add(x, Neg(y))

Mul(x, y) ==
    IF IsNaN(x) \/ IsNaN(y) THEN NaN
    ELSE IF IsInf(x) \/ IsInf(y)
         THEN (IF Sgn(x) * Sgn(y) = 0 THEN NaN ELSE InfOfSign(Sgn(x) * Sgn(y)))
    ELSE Rat(x.n * y.n, x.d * y.d)

Div(x, y) ==
    IF IsNaN(x) \/ IsNaN(y) THEN NaN
    ELSE IF IsInf(x) THEN (IF IsInf(y) THEN NaN
                           ELSE InfOfSign(Sgn(x) * (IF Sgn(y) < 0 THEN -1 ELSE 1)))
    ELSE IF IsInf(y) THEN Fin(0)
    ELSE IF y.n = 0 THEN (IF x.n = 0 THEN NaN ELSE InfOfSign(Sgn(x)))
    ELSE Rat(x.n * y.d, x.d * y.n)

\* sum of a sequence, left to right
RECURSIVE SumSeq(_)
SumSeq(s) == IF s = <<>> THEN Fin(0) ELSE Add(SumSeq(SubSeq(s, 1, Len(s) - 1)), s[Len(s)])

(***************************************************************************)
(* Double: the non-negative binary64 values.  A normal value is m * 2^e    *)
(* with the 53-bit significand m held as five limbs of 13 bits, least      *)
(* significant first (m[5] = 1, so 2^52 <= m < 2^53).  Division and        *)
(* multiplication round to nearest, ties to even, as the hardware does.    *)
(* The exponent range is not bounded: the values here stay far from        *)
(* overflow and underflow.                                                 *)
(***************************************************************************)
\* 2^13, the limb base
LimbBase == 8192

\* limbs of a 53-bit significand
SigLimbs == 5

FZero == [f |-> "zero"]

FInf == [f |-> "inf"]

FNum(m, e) == [f |-> "num", m |-> m, e |-> e]

FOne == FNum(<<0, 0, 0, 0, 1>>, -52)

\* limbs a[i..] plus the carry c, brought back into 0..LimbBase-1 (c may be negative: a borrow)
RECURSIVE CarryFrom(_, _, _)
CarryFrom(a, i, c) ==
    IF i > Len(a) THEN <<>>
    ELSE IF i = Len(a) THEN <<a[i] + c>>
    ELSE <<(a[i] + c) % LimbBase>> \o CarryFrom(a, i + 1, (a[i] + c) \div LimbBase)

\* the top limb keeps whatever is left: it is never reduced
BigNorm(a) == CarryFrom(a, 1, 0)

\* a < b for limb sequences of one length, compared from the top limb down
RECURSIVE BigLtFrom(_, _, _)
BigLtFrom(a, b, i) ==
    IF i = 0 THEN FALSE
    ELSE IF a[i] # b[i] THEN a[i] < b[i]
    ELSE BigLtFrom(a, b, i - 1)

BigLt(a, b) == BigLtFrom(a, b, Len(a))

BigSub(a, b) == BigNorm([i \in 1..Len(a) |-> a[i] - b[i]])

BigTwice(a) == BigNorm([i \in 1..Len(a) |-> 2 * a[i]])

BigInc(a) == BigNorm([i \in 1..Len(a) |-> IF i = 1 THEN a[i] + 1 ELSE a[i]])

BigHalf(a) ==
    [i \in 1..Len(a) |->
        (a[i] \div 2) + (IF i < Len(a) THEN (a[i + 1] % 2) * (LimbBase \div 2) ELSE 0)]

BigIsZero(a) == \A i \in 1..Len(a) : a[i] = 0

BigOdd(a) == a[1] % 2 = 1

\* sum of a[i] * b[k + 1 - i]: the coefficient of LimbBase^(k-1) in a * b
RECURSIVE ConvAt(_, _, _, _)
ConvAt(a, b, k, i) ==
    IF i > Len(a) THEN 0
    ELSE (IF k + 1 - i \in 1..Len(b) THEN a[i] * b[k + 1 - i] ELSE 0) + ConvAt(a, b, k, i + 1)

BigMul(a, b) == BigNorm([k \in 1..(Len(a) + Len(b)) |-> ConvAt(a, b, k, 1)])

\* a significand after rounding up may reach 2^53: renormalise
FRound(m, e, up) ==
    LET Renormalised(r) == IF r[SigLimbs] >= 2 THEN FNum(BigHalf(r), e + 1) ELSE FNum(r, e)
    IN  Renormalised(IF up THEN BigInc(m) ELSE m)

\* float(c) for a Python int 0 <= c < 2^13: exact
RECURSIVE TopAlign(_, _)
TopAlign(c, t) == IF c >= LimbBase \div 2 THEN <<c, t>> ELSE TopAlign(2 * c, t + 1)

FromInt(c) ==
    LET Aligned(a) == FNum(<<0, 0, 0, 2 * a[1] - LimbBase, 1>>, 0 - 40 - a[2])
    IN  IF c = 0 THEN FZero ELSE Aligned(TopAlign(c, 0))

\* long division, one limb of the quotient: steps more bits of r / y (r < y);
\* returns <<the bits appended to d, the remainder>>
RECURSIVE DigitBits(_, _, _, _)
DigitBits(r, d, y, steps) ==
    LET Step(r2) == IF BigLt(r2, y) THEN DigitBits(r2, 2 * d, y, steps - 1)
                    ELSE DigitBits(BigSub(r2, y), 2 * d + 1, y, steps - 1)
    IN  IF steps = 0 THEN <<d, r>> ELSE Step(BigTwice(r))

\* x / y on doubles (float.__truediv__ without the ZeroDivisionError case)
FDiv(x, y) ==
    LET \* the quotient of the significands is in (1/2, 2): its leading bit is
        \* x.m div y.m when that is 1 (ge), and else the bit after it
        Rounded(q, r2, ge) ==
            FRound(q, x.e - y.e - (IF ge THEN 52 ELSE 53),
                   BigLt(y.m, r2) \/ (r2 = y.m /\ BigOdd(q)))
        Limb4(s1, s2, s3, s4, ge) ==
            Rounded(<<s4[1], s3[1], s2[1], s1[1], 1>>, BigTwice(s4[2]), ge)
        Limb3(s1, s2, s3, ge) == Limb4(s1, s2, s3, DigitBits(s3[2], 0, y.m, 13), ge)
        Limb2(s1, s2, ge) == Limb3(s1, s2, DigitBits(s2[2], 0, y.m, 13), ge)
        Limb1(s1, ge) == Limb2(s1, DigitBits(s1[2], 0, y.m, 13), ge)
        Leading(ge) ==
            Limb1(DigitBits(IF ge THEN BigSub(x.m, y.m) ELSE BigSub(BigTwice(x.m), y.m),
                            0, y.m, 13), ge)
    IN  IF x.f = "zero" THEN FZero
        ELSE IF y.f = "inf" THEN FZero
        ELSE IF x.f = "inf" THEN FInf
        ELSE Leading(~BigLt(x.m, y.m))

\* x * y on doubles
FMul(x, y) ==
    LET Rounded(m, wide, rbit, sticky) ==
            FRound(m, x.e + y.e + (IF wide THEN 53 ELSE 52), rbit /\ (sticky \/ BigOdd(m)))
        Halves(hi, lo, wide) ==
            IF wide THEN Rounded(BigHalf(hi), wide, BigOdd(hi), ~BigIsZero(lo))
            ELSE Rounded(hi, wide, lo[4] >= LimbBase \div 2,
                         (lo[4] % (LimbBase \div 2) # 0) \/ ~BigIsZero(SubSeq(lo, 1, 3)))
        Product(p) == Halves(SubSeq(p, 5, 9), SubSeq(p, 1, 4), p[9] >= 2)
    IN  IF x.f = "zero" \/ y.f = "zero" THEN FZero
        ELSE IF x.f = "inf" \/ y.f = "inf" THEN FInf
        ELSE Product(BigMul(x.m, y.m))

FEq(x, y) == x = y

\* x < y on the non-negative doubles
FLt(x, y) ==
    IF x.f = "inf" THEN FALSE
    ELSE IF y.f = "inf" THEN TRUE
    ELSE IF y.f = "zero" THEN FALSE
    ELSE IF x.f = "zero" THEN TRUE
    ELSE IF x.e # y.e THEN x.e < y.e
    ELSE BigLt(x.m, y.m)

FLe(x, y) == FLt(x, y) \/ FEq(x, y)

\* the largest double below 1.0: 1 - 2^-53
FPredOne == FNum(<<8191, 8191, 8191, 8191, 1>>, -53)

(***************************************************************************)
(* Inputs.                                                                 *)
(***************************************************************************)
\* the finite levels an observation takes: below, at and above a threshold of 0
Levels == {-1, 0, 1}

FiniteValues == {Fin(i) : i \in Levels}

\* what a caller can put into the raw sequence
RawValues == FiniteValues \cup {NaN, PInf, NInf}

RECURSIVE SeqsUpTo(_, _)
SeqsUpTo(S, n) ==
    IF n = 0 THEN {<<>>}
    ELSE LET shorter == SeqsUpTo(S, n - 1)
         IN  shorter \cup {Append(s, x) : s \in {t \in shorter : Len(t) = n - 1}, x \in S}

RawSamples == SeqsUpTo(RawValues, MaxLen)

\* thresholds a caller asks about
Thresholds == Levels

Conditions == {"exceeds", "below", "between"}

\* longer two-level series: n years of which the first k read 1 and the rest 0
MaxYears == 9

YearSeries ==
    {[i \in 1..n |-> IF i <= k THEN Fin(1) ELSE Fin(0)] : n \in 1..MaxYears, k \in 0..MaxYears} \ {<<>>}

(***************************************************************************)
(* What a call gives back: a value, or the message of the exception.       *)
(***************************************************************************)
Return(v) == [ok |-> TRUE, val |-> v]

Raise(msg) == [ok |-> FALSE, error |-> msg]

Call(op, args, out) == [op |-> op, args |-> args, out |-> out]

(***************************************************************************)
(* ClimatologicalAnalyzer                                                  *)
(***************************************************************************)
\* self.data[~np.isnan(self.data)]
DropNaN(historical_data) == SelectSeq(historical_data, LAMBDA x : ~IsNaN(x))

\* if self.n_years == 0: raise ValueError
NoValidData(n) == n = 0

\* the constructor's low-confidence warning
FewYears(n) == n < 10

\* __init__: the object, or the ValueError
ClimatologicalAnalyzer(historical_data) ==
    LET Made(cleaned, n) ==
            IF NoValidData(n) THEN Raise("No valid data points provided")
            ELSE Return([data |-> cleaned, n_years |-> n, warned |-> FewYears(n)])
    IN  Made(DropNaN(historical_data), Len(DropNaN(historical_data)))

\* np.sum over a boolean mask
RECURSIVE CountTrue(_)
CountTrue(mask) ==
    IF mask = <<>> THEN 0
    ELSE (IF mask[Len(mask)] THEN 1 ELSE 0) + CountTrue(SubSeq(mask, 1, Len(mask) - 1))

\* the counts and sample sizes the model reaches
MaxCount == IF MaxLen > MaxYears THEN MaxLen ELSE MaxYears

\* count / n_years for every count and size, computed once
QuotientTable ==
    [c \in 0..MaxCount |-> [n \in 1..MaxCount |-> FDiv(FromInt(c), FromInt(n))]]

\* 1 / probability for every probability above, computed once
ReciprocalTable ==
    [p \in {QuotientTable[c][n] : c \in 0..MaxCount, n \in 1..MaxCount} \ {FZero} |-> FDiv(FOne, p)]

\* count / self.n_years: a Python int over a Python int is a float
TrueDivide(count, n) ==
    IF count \in DOMAIN QuotientTable /\ n \in DOMAIN QuotientTable[count]
    THEN QuotientTable[count][n]
    ELSE FDiv(FromInt(count), FromInt(n))

\* 1 / probability
Reciprocal(probability) ==
    IF probability \in DOMAIN ReciprocalTable THEN ReciprocalTable[probability]
    ELSE FDiv(FOne, probability)

\* variant that counts ties at the threshold
calculate_probability_Inclusive(self, threshold, condition) ==
    IF condition = "exceeds"
    THEN Return(TrueDivide(CountTrue([i \in 1..Len(self.data) |-> Ge(self.data[i], threshold)]),
                           self.n_years))
    ELSE IF condition = "below"
    THEN Return(TrueDivide(CountTrue([i \in 1..Len(self.data) |-> Le(self.data[i], threshold)]),
                           self.n_years))
    ELSE Raise("Condition must be 'exceeds' or 'below'")

calculate_probability(self, threshold, condition) ==
    IF condition = "exceeds"
    THEN Return(TrueDivide(CountTrue([i \in 1..Len(self.data) |-> Gt(self.data[i], threshold)]),
                           self.n_years))
    ELSE IF condition = "below"
    THEN Return(TrueDivide(CountTrue([i \in 1..Len(self.data) |-> Lt(self.data[i], threshold)]),
                           self.n_years))
    ELSE Raise("Condition must be 'exceeds' or 'below'")

\* variant that leaves the upper endpoint out
get_comfortable_probability_HalfOpen(self, min_comfortable, max_comfortable) ==
    Return(TrueDivide(CountTrue([i \in 1..Len(self.data) |->
                          Ge(self.data[i], min_comfortable) /\ Lt(self.data[i], max_comfortable)]),
                      self.n_years))

get_comfortable_probability(self, min_comfortable, max_comfortable) ==
    Return(TrueDivide(CountTrue([i \in 1..Len(self.data) |->
                          Ge(self.data[i], min_comfortable) /\ Le(self.data[i], max_comfortable)]),
                      self.n_years))

\* variant that reports a zero probability as the period 1
calculate_return_period_ZeroAsOne(self, threshold, condition) ==
    LET Period(probability) ==
            IF ~probability.ok THEN probability
            ELSE IF probability.val = FZero THEN Return(FOne)
            ELSE Return(Reciprocal(probability.val))
    IN  Period(calculate_probability(self, threshold, condition))

calculate_return_period(self, threshold, condition) ==
    LET Period(probability) ==
            IF ~probability.ok THEN probability
            ELSE IF probability.val = FZero THEN Return(FInf)
            ELSE Return(Reciprocal(probability.val))
    IN  Period(calculate_probability(self, threshold, condition))

(***************************************************************************)
(* get_percentiles: np.percentile(self.data, q), method "linear".          *)
(***************************************************************************)
\* x inserted into the ascending sequence s, after the entries it is not below
RECURSIVE Insert(_, _)
Insert(s, x) ==
    IF s = <<>> THEN <<x>>
    ELSE IF Lt(x, s[Len(s)]) THEN Append(Insert(SubSeq(s, 1, Len(s) - 1), x), s[Len(s)])
    ELSE Append(s, x)

\* np.sort of a sequence without NaN
RECURSIVE Sort(_)
Sort(s) == IF s = <<>> THEN <<>> ELSE Insert(Sort(SubSeq(s, 1, Len(s) - 1)), s[Len(s)])

\* numpy's _lerp: a + (b - a) * t below t = 1/2, and b - (b - a) * (1 - t) from there on
Lerp(a, b, t) ==
    LET Blend(diff_b_a) ==
            IF Lt(t, Rat(1, 2)) THEN Add(a, Mul(diff_b_a, t))
            ELSE Sub(b, Mul(diff_b_a, Sub(Fin(1), t)))
    IN  Blend(Sub(b, a))

\* the q-th percentile: the order statistics around virtual index (n - 1) * q / 100
Percentile(a, q) ==
    LET Between(arr, n, previous_index) ==
            Lerp(arr[previous_index + 1],
                 arr[(IF previous_index + 1 > n - 1 THEN n - 1 ELSE previous_index + 1) + 1],
                 Rat(((n - 1) * q) % 100, 100))
    IN  Between(Sort(a), Len(a), ((Len(a) - 1) * q) \div 100)

PercentileRanks == <<10, 25, 50, 75, 90, 95, 99>>

get_percentiles(self) ==
    Return([p10 |-> Percentile(self.data, 10),
            p25 |-> Percentile(self.data, 25),
            p50 |-> Percentile(self.data, 50),
            p75 |-> Percentile(self.data, 75),
            p90 |-> Percentile(self.data, 90),
            p95 |-> Percentile(self.data, 95),
            p99 |-> Percentile(self.data, 99)])

(***************************************************************************)
(* detect_trend: scipy.stats.linregress(np.arange(n_years), self.data).    *)
(* The correlation and the standard error are square roots: Root(s, sq) is *)
(* s * sqrt(sq).  The p-value of the slope's t-test is kept as the square  *)
(* of the t statistic and the degrees of freedom it is the tail of.        *)
(***************************************************************************)
Root(s, sq) == [s |-> s, sq |-> sq]

RootAbs(r) == [s |-> Abs(r.s), sq |-> r.sq]

PExact(v) == [kind |-> "exact", v |-> v]

PTail(t2, df) == [kind |-> "t", t2 |-> t2, df |-> df]

\* 10^4 times the square of the two-sided 5% point of Student's t, by degrees of freedom
TCritSq ==
    <<1614476, 185128, 101280, 77086, 66079, 59874, 55914, 53177, 51174, 49646,
      48443, 47472, 46672, 46001, 45431, 44940, 44513, 44139, 43807, 43512,
      43248, 43009, 42793, 42597, 42417, 42252, 42100, 41960, 41830>>

\* p < 0.05
PBelow05(p) ==
    IF p.kind = "exact" THEN Lt(p.v, Rat(5, 100))
    ELSE Gt(p.t2, Rat(TCritSq[p.df], 10000))

Mean(s) == Div(SumSeq(s), Fin(Len(s)))

\* np.cov(x, y, bias=1): the mean of the products of the deviations
Cov(x, y) ==
    LET Deviations(xm, ym) == [i \in 1..Len(x) |-> Mul(Sub(x[i], xm), Sub(y[i], ym))]
    IN  Mean(Deviations(Mean(x), Mean(y)))

AllSame(s) == \A i \in 1..Len(s) : Eq(s[i], s[1])

linregress(x, y) ==
    LET n == Len(x)
        df == Len(x) - 2
        Result(slope, r2, ssxym, ssxm, ssym, t2) ==
            Return([slope |-> slope,
                    intercept |-> Sub(Mean(y), Mul(slope, Mean(x))),
                    rvalue |-> IF IsNaN(r2) THEN Root(0, NaN) ELSE Root(Sgn(ssxym), r2),
                    pvalue |-> IF n = 2
                               THEN PExact(IF y[1] = y[2] /\ ~IsNaN(y[1]) THEN Fin(1) ELSE Fin(0))
                               ELSE IF df < 0 \/ IsNaN(t2) THEN PExact(NaN)
                               ELSE IF Eq(t2, Fin(0)) THEN PExact(Fin(1))
                               ELSE PTail(t2, df),
                    stderr |-> IF n = 2 THEN Root(1, Fin(0))
                               ELSE Root(1, Div(Div(Mul(Sub(Fin(1), r2), ssym), ssxm), Fin(df)))])
        \* r = ssxym / sqrt(ssxm * ssym), or 0 when the denominator would be 0
        Correlated(ssxm, ssym, ssxym, r2) ==
            Result(Div(ssxym, ssxm), r2, ssxym, ssxm, ssym,
                   Div(Mul(r2, Fin(df)), Sub(Fin(1), r2)))
        Moments(ssxm, ssym, ssxym) ==
            Correlated(ssxm, ssym, ssxym,
                       IF Eq(ssxm, Fin(0)) \/ Eq(ssym, Fin(0)) THEN Fin(0)
                       ELSE Div(Mul(ssxym, ssxym), Mul(ssxm, ssym)))
    IN  IF Len(x) = 0 \/ Len(y) = 0 THEN Raise("Inputs must not be empty.")
        ELSE IF Len(x) > 1 /\ AllSame(x)
        THEN Raise("Cannot calculate a linear regression if all x values are identical")
        ELSE Moments(Cov(x, x), Cov(y, y), Cov(x, y))

\* np.arange(n)
Arange(n) == [i \in 1..n |-> Fin(i - 1)]

\* variant that reports a flat line as increasing
TrendDirection_FlatIncreasing(slope) == IF Ge(slope, Fin(0)) THEN "increasing" ELSE "decreasing"

\* 'increasing' if slope > 0 else 'decreasing'
TrendDirection(slope) == IF Gt(slope, Fin(0)) THEN "increasing" ELSE "decreasing"

detect_trend(self) ==
    LET Outcome(res) ==
            IF res.ok
            THEN Return([slope |-> res.val.slope,
                         intercept |-> res.val.intercept,
                         r_value |-> res.val.rvalue,
                         p_value |-> res.val.pvalue,
                         std_err |-> res.val.stderr,
                         significant |-> PBelow05(res.val.pvalue),
                         direction |-> TrendDirection(res.val.slope),
                         trend_strength |-> RootAbs(res.val.rvalue)])
            ELSE Return([slope |-> Fin(0),
                         p_value |-> PExact(Fin(1)),
                         significant |-> FALSE,
                         direction |-> "no trend",
                         error |-> res.error])
    IN  Outcome(linregress(Arange(self.n_years), self.data))

(***************************************************************************)
(* get_extreme_value_analysis.  The maximum-likelihood fit and the         *)
(* Kolmogorov-Smirnov test are library calls whose numbers the model does  *)
(* not compute: each is an input, drawn from the outcomes the call can     *)
(* have.                                                                   *)
(***************************************************************************)
\* scales a successful fit may report: 1..MaxScale
MaxScale == 1

Min(s) == CHOOSE x \in {s[i] : i \in 1..Len(s)} : \A j \in 1..Len(s) : Le(x, s[j])

Max(s) == CHOOSE x \in {s[i] : i \in 1..Len(s)} : \A j \in 1..Len(s) : Ge(x, s[j])

\* stats.gumbel_r.fit(self.data): it refuses non-finite data, and on a sample
\* without spread its scale equation has no root and the solver raises; otherwise
\* the estimates are some location and some positive scale
gumbel_r_fit(a) ==
    IF \E i \in 1..Len(a) : ~IsFinite(a[i])
    THEN {Raise("The data contains non-finite values.")}
    ELSE IF AllSame(a)
    THEN {Raise("The function value at x=0.0 is NaN; solver cannot continue.")}
    ELSE {Return([loc |-> Min(a), scale |-> Fin(sc)]) : sc \in 1..MaxScale}

\* 10^4 * -ln(-ln(1 - 1/T)), the reduced Gumbel variate of return period T
GumbelVariate == (2 :> 3665) @@ (5 :> 14999) @@ (10 :> 22504) @@ (20 :> 29702)
                 @@ (50 :> 39019) @@ (100 :> 46001)

\* variant that takes the quantile of the lower tail
gumbel_r_ppf_LowerTail(period, params) ==
    IF ~Gt(params.scale, Fin(0)) THEN NaN
    ELSE Sub(params.loc, Mul(params.scale, Rat(GumbelVariate[period], 10000)))

\* stats.gumbel_r.ppf(1 - 1/period, loc, scale): NaN for a scale that is not positive
gumbel_r_ppf(period, params) ==
    IF ~Gt(params.scale, Fin(0)) THEN NaN
    ELSE Add(params.loc, Mul(params.scale, Rat(GumbelVariate[period], 10000)))

\* stats.kstest(self.data, cdf): a statistic and a p-value, or an exception
KsPValues == {Rat(1, 100), Rat(5, 100), Rat(1, 2)}

kstest ==
    {Return([statistic |-> Rat(1, 2), pvalue |-> pv]) : pv \in KsPValues}
    \cup {Raise("kstest failed")}

\* variant that takes a p-value of exactly 0.05 for a good fit
gumbel_goodness_of_fit_BoundaryGood(ks) ==
    IF ks.ok
    THEN [ks_statistic |-> ks.val.statistic,
          ks_p_value |-> ks.val.pvalue,
          fit_quality |-> IF Ge(ks.val.pvalue, Rat(5, 100)) THEN "good" ELSE "poor"]
    ELSE [fit_quality |-> "unknown"]

\* _gumbel_goodness_of_fit: the record of the test, or 'unknown' when it raised
gumbel_goodness_of_fit(ks) ==
    IF ks.ok
    THEN [ks_statistic |-> ks.val.statistic,
          ks_p_value |-> ks.val.pvalue,
          fit_quality |-> IF Gt(ks.val.pvalue, Rat(5, 100)) THEN "good" ELSE "poor"]
    ELSE [fit_quality |-> "unknown"]

\* variant whose failure record still carries distribution parameters
get_extreme_value_analysis_KeepsParams(self, fit, ks) ==
    IF fit.ok
    THEN Return([distribution_params |-> fit.val,
                 goodness_of_fit |-> gumbel_goodness_of_fit(ks)])
    ELSE Return([error |-> fit.error,
                 distribution_params |-> [loc |-> Fin(0), scale |-> Fin(0)]])

get_extreme_value_analysis(self, fit, ks) ==
    IF fit.ok
    THEN Return([distribution_params |-> fit.val,
                 return_values |->
                     ("2_year" :> gumbel_r_ppf(2, fit.val)) @@ ("5_year" :> gumbel_r_ppf(5, fit.val))
                     @@ ("10_year" :> gumbel_r_ppf(10, fit.val)) @@ ("20_year" :> gumbel_r_ppf(20, fit.val))
                     @@ ("50_year" :> gumbel_r_ppf(50, fit.val)) @@ ("100_year" :> gumbel_r_ppf(100, fit.val)),
                 goodness_of_fit |-> gumbel_goodness_of_fit(ks)])
    ELSE Return([error |-> fit.error])

(***************************************************************************)
(* generate_risk_assessment and _categorize_risk                           *)
(***************************************************************************)
\* np.median: the middle order statistic, or the mean of the two middle ones
Median(a) ==
    LET Middle(arr, n) ==
            IF n % 2 = 1 THEN arr[(n + 1) \div 2]
            ELSE Div(Add(arr[n \div 2], arr[n \div 2 + 1]), Fin(2))
    IN  Middle(Sort(a), Len(a))

\* np.std: the root of the mean squared deviation from the mean
Std(a) == Root(1, Cov(a, a))

\* r < q for a root r and a rational q > 0; false when r is NaN
RootLt(r, q) == IF r.s <= 0 THEN ~IsNaN(r.sq) ELSE Lt(r.sq, Mul(q, q))

\* std_dev / abs(mean) if mean != 0 else float('inf')
CoefficientOfVariation(std_dev, mean) ==
    IF ~Eq(mean, Fin(0)) THEN Root(std_dev.s, Div(std_dev.sq, Mul(mean, mean)))
    ELSE Root(1, PInf)

\* r <= q for a root r and a rational q > 0; false when r is NaN
RootLe(r, q) == IF r.s <= 0 THEN ~IsNaN(r.sq) ELSE Le(r.sq, Mul(q, q))

\* variant that puts each boundary value into the lower band
RiskBand_BoundaryBelow(cv) ==
    IF RootLe(cv, Rat(1, 10)) THEN "Low"
    ELSE IF RootLe(cv, Rat(3, 10)) THEN "Moderate"
    ELSE IF RootLe(cv, Rat(5, 10)) THEN "High"
    ELSE "Very High"

\* the chain of comparisons: a cv that is NaN fails all three
RiskBand(cv) ==
    IF RootLt(cv, Rat(1, 10)) THEN "Low"
    ELSE IF RootLt(cv, Rat(3, 10)) THEN "Moderate"
    ELSE IF RootLt(cv, Rat(5, 10)) THEN "High"
    ELSE "Very High"

\* variant that gives up when the extreme-value analysis holds an error
categorize_risk_NeedsFit(assessment) ==
    IF "extreme_values" \in DOMAIN assessment /\ "error" \in DOMAIN assessment.extreme_values
    THEN "Unknown"
    ELSE RiskBand(CoefficientOfVariation(assessment.basic_stats.std_dev,
                                         assessment.basic_stats.mean))

\* a missing entry raises KeyError, which the bare except turns into 'Unknown'
categorize_risk(assessment) ==
    IF "basic_stats" \notin DOMAIN assessment
       \/ {"std_dev", "mean"} \ DOMAIN assessment.basic_stats # {}
    THEN "Unknown"
    ELSE RiskBand(CoefficientOfVariation(assessment.basic_stats.std_dev,
                                         assessment.basic_stats.mean))

\* the threshold dictionaries a caller passes: every subset of the recognised
\* entries, and one that holds only entries the method does not read
ThresholdSets ==
    LET hot == [hot |-> 1]
        cold == [cold |-> 0]
        comfortable == [comfortable |-> [min |-> 0, max |-> 1]]
    IN  {<<>>, hot, cold, comfortable, hot @@ cold, hot @@ comfortable, cold @@ comfortable,
         hot @@ cold @@ comfortable, [wet |-> 1, dry |-> 0]}

\* the descriptive statistics of the sample
BasicStats(self) ==
    [mean |-> Mean(self.data),
     median |-> Median(self.data),
     std_dev |-> Std(self.data),
     min_recorded |-> Min(self.data),
     max_recorded |-> Max(self.data),
     data_years |-> self.n_years]

\* variant that writes a zero for every figure whose threshold is absent
ThresholdFields_ZeroFilled(self, thresholds) ==
    [very_hot_probability |->
         IF "hot" \in DOMAIN thresholds
         THEN calculate_probability(self, Fin(thresholds.hot), "exceeds").val ELSE FZero,
     very_cold_probability |->
         IF "cold" \in DOMAIN thresholds
         THEN calculate_probability(self, Fin(thresholds.cold), "below").val ELSE FZero]

\* the figures added for the entries the threshold dictionary holds; an empty
\* dictionary is falsy and adds nothing
ThresholdFields(self, thresholds) ==
    LET hot == IF "hot" \in DOMAIN thresholds
               THEN [very_hot_probability |->
                         calculate_probability(self, Fin(thresholds.hot), "exceeds").val,
                     hot_return_period |->
                         calculate_return_period(self, Fin(thresholds.hot), "exceeds").val]
               ELSE <<>>
        cold == IF "cold" \in DOMAIN thresholds
                THEN [very_cold_probability |->
                          calculate_probability(self, Fin(thresholds.cold), "below").val,
                      cold_return_period |->
                          calculate_return_period(self, Fin(thresholds.cold), "below").val]
                ELSE <<>>
        comfort == IF "comfortable" \in DOMAIN thresholds
                   THEN [comfortable_probability |->
                             get_comfortable_probability(self, Fin(thresholds.comfortable.min),
                                                         Fin(thresholds.comfortable.max)).val]
                   ELSE <<>>
    IN  IF thresholds # <<>> THEN hot @@ cold @@ comfort ELSE <<>>

generate_risk_assessment(self, thresholds, fit, ks) ==
    LET Categorized(assessment) ==
            Return(assessment @@ [risk_category |-> categorize_risk(assessment)])
        WithExtremes(assessment) ==
            Categorized(assessment
                        @@ [extreme_values |-> get_extreme_value_analysis(self, fit, ks).val])
    IN  WithExtremes([basic_stats |-> BasicStats(self),
                      percentiles |-> get_percentiles(self).val,
                      trend_analysis |-> detect_trend(self).val]
                     @@ ThresholdFields(self, thresholds))

(***************************************************************************)
(* confidence_interval.  The margin is a square root: an end of the        *)
(* interval is kept as its centre and its signed offset from the centre.   *)
(***************************************************************************)
\* the confidence levels a caller asks for
ConfidenceLevels == {Rat(95, 100), Rat(90, 100)}

\* 10^4 times the square of the 95% point of Student's t, by degrees of freedom
T95Sq ==
    <<398635, 85263, 55383, 45448, 40604, 37759, 35894, 34579, 33603, 32850,
      32252, 31765, 31362, 31022, 30732, 30481, 30262, 30070, 29899, 29747,
      29610, 29486, 29374, 29271, 29177, 29091, 29012, 28938, 28870>>

\* the sample size from which the normal quantile replaces Student's t
LargeSample == 30

\* variant that still takes Student's t at the boundary size
UsesStudentT_AtBoundary(n) == n <= LargeSample

\* if self.n_years < 30
UsesStudentT(n) == n < LargeSample

\* the square of stats.t.ppf(1 - alpha/2, df): NaN without degrees of freedom
TQuantileSq(confidence_level, df) ==
    IF df < 1 THEN NaN
    ELSE IF confidence_level = Rat(95, 100) THEN Rat(TCritSq[df], 10000)
    ELSE Rat(T95Sq[df], 10000)

\* the square of stats.norm.ppf(1 - alpha/2)
ZQuantileSq(confidence_level) ==
    IF confidence_level = Rat(95, 100) THEN Rat(38415, 10000) ELSE Rat(27055, 10000)

\* stats.sem: the Bessel-corrected standard deviation over sqrt(n), as its
\* square; a single value leaves 0 / 0
SemSq(a) == Div(Div(Mul(Cov(a, a), Fin(Len(a))), Fin(Len(a) - 1)), Fin(Len(a)))

\* centre + side * sqrt(margin_sq)
Endpoint(centre, side, margin_sq) == [centre |-> centre, offset |-> Root(side, margin_sq)]

confidence_interval(self, confidence_level) ==
    LET Interval(mean, margin_sq) ==
            Return(<<Endpoint(mean, -1, margin_sq), Endpoint(mean, 1, margin_sq)>>)
        Margin(critical_sq, std_err_sq) ==
            Interval(Mean(self.data), Mul(critical_sq, std_err_sq))
    IN  IF UsesStudentT(self.n_years)
        THEN Margin(TQuantileSq(confidence_level, self.n_years - 1), SemSq(self.data))
        ELSE Margin(ZQuantileSq(confidence_level), SemSq(self.data))

(***************************************************************************)
(* MeteomaticsClient.get_historical_data and the seeded stand-in data.     *)
(***************************************************************************)
\* the entry of a parameter list that is the Python value None, not a string
NoneParam == "<None>"

\* the parameter codes a query may list
Catalogue == {"t_2m:C", "precip_24h:mm", NoneParam}

IsStr(parameter) == parameter # NoneParam

\* parameter.split(':')[0].lower()
ParamKey(parameter) ==
    CASE parameter = "t_2m:C" -> "t_2m"
      [] parameter = "precip_24h:mm" -> "precip_24h"
      [] parameter = "snow_depth:cm" -> "snow_depth"

\* part in text, for the codes and keys above
Contains(text, part) ==
    \/ part = "t_2m" /\ text \in {"t_2m:C", "t_2m"}
    \/ part = "precip" /\ text \in {"precip_24h:mm", "precip_24h"}

\* the year whose frame came back empty
EmptyFrame == [k |-> "empty", n |-> 0, d |-> 1]

\* fewer real values than this and the seeded stand-in data is used instead
MinRealYears == 5

\* the first draws after np.random.seed(42), rounded to whole units:
\* 20 + normal(0, 5), exponential(5) and normal(0, 1)
SeededDraws(parameter) ==
    IF Contains(parameter, "t_2m") THEN <<Fin(22), Fin(19), Fin(23), Fin(28), Fin(19)>>
    ELSE IF Contains(parameter, "precip") THEN <<Fin(2), Fin(15), Fin(7), Fin(5), Fin(1)>>
    ELSE <<Fin(0), Fin(0), Fin(1), Fin(2), Fin(0)>>

\* what one query's yearly requests may bring back: nothing at all, too few
\* values, the same value every year, or values that differ
Readings(years_back) ==
    IF years_back <= 0 THEN {<<>>}
    ELSE {[i \in 1..years_back |-> EmptyFrame],
          [i \in 1..years_back |-> IF i = 1 THEN NaN ELSE Fin(20)],
          [i \in 1..years_back |-> Fin(20)],
          [i \in 1..years_back |-> Fin(10 * i)]}

\* what the yearly requests bring back while the provider refuses every one of
\* them: get_climatology answers each with one unseeded random value
OfflineReadings(years_back) ==
    IF years_back <= 0 THEN {<<>>}
    ELSE {[i \in 1..years_back |-> Fin(20)],
          [i \in 1..years_back |-> Fin(10 * i)]}

\* variant that has no stand-in data to offer
generate_mock_historical_data_Empty(parameter, years) == Return(<<>>)

generate_mock_historical_data(parameter, years) ==
    IF ~IsStr(parameter) THEN Raise("argument of type 'NoneType' is not iterable")
    ELSE IF Contains(parameter, "t_2m")
    THEN Return(SubSeq(SeededDraws(parameter), 1, years))
    ELSE IF years < 0 THEN Raise("negative dimensions are not allowed")
    ELSE Return(SubSeq(SeededDraws(parameter), 1, years))

\* a year is skipped when its request raises (as it does for a parameter that
\* is not a string), when its frame is empty, or when its value is NaN
get_historical_data(parameter, years_back, readings) ==
    LET Fetched(historical_data) ==
            IF Len(historical_data) < MinRealYears
            THEN generate_mock_historical_data(parameter, years_back)
            ELSE Return(historical_data)
    IN  Fetched(IF IsStr(parameter)
                THEN SelectSeq(readings, LAMBDA v : v # EmptyFrame /\ ~IsNaN(v))
                ELSE <<>>)

(***************************************************************************)
(* WeatherQueryProcessor.  A Python dict is a sequence of <<key, value>>   *)
(* pairs in insertion order.                                               *)
(***************************************************************************)
Keys(dict) == [i \in 1..Len(dict) |-> dict[i][1]]

Has(dict, key) == \E i \in 1..Len(dict) : dict[i][1] = key

Get(dict, key) == dict[CHOOSE i \in 1..Len(dict) : dict[i][1] = key][2]

\* variant that forgets the entries stored before
Put_Forgetful(dict, key, value) == <<<<key, value>>>>

\* dict[key] = value: a known key keeps its place
Put(dict, key, value) ==
    IF Has(dict, key)
    THEN [i \in 1..Len(dict) |-> IF dict[i][1] = key THEN <<key, value>> ELSE dict[i]]
    ELSE Append(dict, <<key, value>>)

\* config.PARAMETER_THRESHOLDS
PARAMETER_THRESHOLDS ==
    ("t_2m" :> [hot |-> 32, cold |-> 0, comfortable |-> [min |-> 18, max |-> 24],
                extreme_hot |-> 40, extreme_cold |-> -10])
    @@ ("t_max_2m_24h" :> [hot |-> 35, cold |-> 5, comfortable |-> [min |-> 20, max |-> 28],
                           extreme_hot |-> 45, extreme_cold |-> -5])
    @@ ("t_min_2m_24h" :> [hot |-> 25, cold |-> -5, comfortable |-> [min |-> 10, max |-> 20],
                           extreme_hot |-> 30, extreme_cold |-> -15])
    @@ ("precip_24h" :> [wet |-> 25, dry |-> Rat(1, 10), comfortable |-> [min |-> 0, max |-> 5],
                         extreme_wet |-> 50, extreme_dry |-> 0])
    @@ ("wind_speed_10m" :> [windy |-> 40, calm |-> 10, comfortable |-> [min |-> 0, max |-> 25],
                             extreme_windy |-> 70, extreme_calm |-> 5])
    @@ ("relative_humidity_2m" :> [humid |-> 80, dry |-> 30,
                                   comfortable |-> [min |-> 40, max |-> 60],
                                   extreme_humid |-> 95, extreme_dry |-> 15])

get_thresholds(parameter) ==
    IF ~IsStr(parameter) THEN Raise("'NoneType' object has no attribute 'split'")
    ELSE IF ParamKey(parameter) \in DOMAIN PARAMETER_THRESHOLDS
    THEN Return(PARAMETER_THRESHOLDS[ParamKey(parameter)])
    ELSE Return(<<>>)

get_parameter_description(parameter) ==
    CASE parameter = "t_2m:C" -> "Temperature at 2 meters above ground"
      [] parameter = "precip_24h:mm" -> "Precipitation in 24 hours"
      [] OTHER -> parameter

\* the part after the colon, or '' without one
get_parameter_units(parameter) ==
    CASE parameter = "t_2m:C" -> "C"
      [] parameter = "precip_24h:mm" -> "mm"
      [] parameter = "snow_depth:cm" -> "cm"
      [] OTHER -> ""

interpret_results(parameter, assessment) ==
    LET param_key == ParamKey(parameter)
        trend == assessment.trend_analysis
        Texts(mean_val, cv) ==
            [variability |-> IF RootLt(cv, Rat(1, 10)) THEN "Very consistent conditions"
                             ELSE IF RootLt(cv, Rat(2, 10)) THEN "Fairly consistent conditions"
                             ELSE IF RootLt(cv, Rat(3, 10)) THEN "Moderate variability"
                             ELSE "High variability",
             trend |-> IF trend.significant
                       THEN "Significant " \o trend.direction \o " trend detected"
                       ELSE "No significant trend detected"]
            @@ (IF Contains(param_key, "t_2m")
                THEN [typical_conditions |->
                         IF Lt(mean_val, Fin(10)) THEN "Typically cold conditions"
                         ELSE IF Gt(mean_val, Fin(25)) THEN "Typically warm conditions"
                         ELSE "Typically mild conditions"]
                ELSE IF Contains(param_key, "precip")
                THEN [typical_conditions |->
                         IF Lt(mean_val, Fin(1)) THEN "Typically dry conditions"
                         ELSE IF Gt(mean_val, Fin(10)) THEN "Typically wet conditions"
                         ELSE "Typically moderate precipitation"]
                ELSE <<>>)
            @@ [risk_level |-> "Risk level: " \o assessment.risk_category]
        \* std_val / abs(mean_val) if mean_val != 0 else 0
        Interpreted(mean_val, std_val) ==
            Texts(mean_val,
                  IF ~Eq(mean_val, Fin(0))
                  THEN Root(std_val.s, Div(std_val.sq, Mul(mean_val, mean_val)))
                  ELSE Root(0, Fin(0)))
    IN  Interpreted(assessment.basic_stats.mean, assessment.basic_stats.std_dev)

\* the record stored for a parameter whose processing raised
ErrorEntry(message) == [error |-> message]

\* the body of the loop over the parameters: every entry it may store for
\* param, one per outcome of the fit and of the goodness-of-fit test
ParameterEntries(param, location, analysis_years, readings) ==
    LET Interpreted(assessment) ==
            assessment @@ [interpretation |-> interpret_results(param, assessment)]
        Entry(analyzer, thresholds, fit, ks) ==
            Interpreted(generate_risk_assessment(analyzer, thresholds, fit, ks).val
                        @@ [parameter_info |->
                                [code |-> param,
                                 description |-> get_parameter_description(param),
                                 units |-> get_parameter_units(param),
                                 thresholds_used |-> thresholds]])
        Analysed(analyzer, thresholds) ==
            IF ~analyzer.ok THEN {ErrorEntry(analyzer.error)}
            ELSE IF ~thresholds.ok THEN {ErrorEntry(thresholds.error)}
            ELSE {Entry(analyzer.val, thresholds.val, fit, ks) :
                    fit \in gumbel_r_fit(analyzer.val.data), ks \in kstest}
        Fetched(historical_data) ==
            IF ~historical_data.ok THEN {ErrorEntry(historical_data.error)}
            ELSE IF Len(historical_data.val) > 0
            THEN Analysed(ClimatologicalAnalyzer(historical_data.val), get_thresholds(param))
            ELSE {ErrorEntry("No historical data available")}
    IN  IF "lat" \notin DOMAIN location THEN {ErrorEntry("'lat'")}
        ELSE IF "lon" \notin DOMAIN location THEN {ErrorEntry("'lon'")}
        ELSE Fetched(get_historical_data(param, analysis_years, readings))

\* 'significant' in text.lower(), for the texts an interpretation holds: both
\* the positive and the negative sentence contain the word
MentionsSignificant(text) ==
    \/ text = "No significant trend detected"
    \/ \E direction \in {"increasing", "decreasing", "no trend", "unknown"} :
         text = "Significant " \o direction \o " trend detected"

\* variant that settles a tie for the label that appeared last
MostCommon_LastWins(levels) ==
    LET Count(risk) == Cardinality({i \in 1..Len(levels) : levels[i] = risk})
    IN  levels[CHOOSE i \in 1..Len(levels) :
                  /\ \A j \in 1..Len(levels) : Count(levels[j]) <= Count(levels[i])
                  /\ \A j \in (i + 1)..Len(levels) : Count(levels[j]) < Count(levels[i])]

\* max(risk_counts, key=risk_counts.get): the first label, in order of first
\* appearance, that no other label outnumbers
MostCommon(levels) ==
    LET Count(risk) == Cardinality({i \in 1..Len(levels) : levels[i] = risk})
    IN  levels[CHOOSE i \in 1..Len(levels) :
                  /\ \A j \in 1..Len(levels) : Count(levels[j]) <= Count(levels[i])
                  /\ \A j \in 1..(i - 1) : Count(levels[j]) < Count(levels[i])]

\* variant that also takes an assessment with a failed fit for a failure
AnalysisFailed_Degraded(analysis) ==
    \/ "error" \in DOMAIN analysis
    \/ "error" \in DOMAIN analysis.extreme_values

\* if 'error' in analysis
AnalysisFailed(analysis) == "error" \in DOMAIN analysis

generate_summary(outcome) ==
    LET Closed(summary) ==
            IF summary.overall_risk_levels # <<>>
            THEN summary @@ [dominant_risk_level |-> MostCommon(summary.overall_risk_levels)]
            ELSE summary
        Counted(parameters, done, found) ==
            Closed([total_parameters |-> Len(parameters),
                    successful_analyses |-> Len(done),
                    failed_analyses |-> Len(parameters) - Len(done),
                    overall_risk_levels |-> [i \in 1..Len(done) |-> done[i][2].risk_category],
                    key_findings |->
                        [i \in 1..Len(found) |->
                            found[i][1] \o ": " \o found[i][2].interpretation.trend]])
        Successful(parameters, done) ==
            Counted(parameters, done,
                    SelectSeq(done, LAMBDA item :
                                        MentionsSignificant(item[2].interpretation.trend)))
    IN  Successful(outcome.parameters,
                   SelectSeq(outcome.parameters, LAMBDA item : ~AnalysisFailed(item[2])))

\* datetime.strptime(date, '%Y-%m-%d') accepts the text
DateStrings == {"2024-07-15", "2024-02-30", "15/07/2024"}

\* %m and %d match one digit as well as two
WellFormedDate(date) == date \in {"2024-07-15", "2024-7-5"}

(***************************************************************************)
(* validate_inputs.  A coordinate is what float() makes of it: a number,   *)
(* or nothing when the conversion raises.                                  *)
(***************************************************************************)
\* a coordinate float() does not convert
NotNumeric == [k |-> "text", n |-> 0, d |-> 1]

\* the keys of get_available_parameters()
AvailableParameters ==
    {"t_2m:C", "t_max_2m_24h:C", "t_min_2m_24h:C", "precip_24h:mm", "wind_speed_10m:ms",
     "wind_gusts_10m_24h:ms", "relative_humidity_2m:p", "msl_pressure:hPa",
     "sunshine_duration_24h:h"}

\* variant that does not look at the date
DateErrors_Unchecked(date) == <<>>

\* the error of a date strptime refuses
DateErrors(date) ==
    IF WellFormedDate(date) THEN <<>> ELSE <<"Date must be in format YYYY-MM-DD">>

\* the errors of the location: missing keys, or a failed conversion, or one
\* error per coordinate out of range
LocationErrors(location) ==
    IF {"lat", "lon"} \ DOMAIN location # {}
    THEN <<"Location must contain 'lat' and 'lon' keys">>
    ELSE IF location.lat = NotNumeric \/ location.lon = NotNumeric
    THEN <<"Latitude and longitude must be numeric">>
    ELSE (IF ~(Le(Fin(-90), location.lat) /\ Le(location.lat, Fin(90)))
          THEN <<"Latitude must be between -90 and 90">> ELSE <<>>)
         \o (IF ~(Le(Fin(-180), location.lon) /\ Le(location.lon, Fin(180)))
             THEN <<"Longitude must be between -180 and 180">> ELSE <<>>)

\* one error for an empty list, and one per parameter that is not available
ParameterErrors(parameters) ==
    LET unknown == SelectSeq(parameters, LAMBDA param : param \notin AvailableParameters)
    IN  (IF parameters = <<>> THEN <<"At least one parameter must be selected">> ELSE <<>>)
        \o [i \in 1..Len(unknown) |-> "Unknown parameter: " \o unknown[i]]

validate_inputs(location, date, parameters) ==
    Return(LocationErrors(location) \o DateErrors(date) \o ParameterErrors(parameters))

VARIABLES
    phase,      \* "new" | "ready" (constructed) | "failed" (the constructor raised)
    raw,        \* historical_data as given by the caller
    data,       \* self.data
    n_years,    \* self.n_years
    warned,     \* the low-confidence warning was emitted
    ret,        \* the last call: its name, its arguments and what it returned or raised
    query,      \* the arguments of process_query
    q_pc,       \* "idle" | "start" | "loop" | "returned" | "raised"
    q_i,        \* position in the parameter list of the parameter processed next
    results,    \* the result dictionary under construction
    q_error,    \* the message of the exception process_query raised
    kept        \* the first assessment a caller keeps to compare a second one with

avars == <<phase, raw, data, n_years, warned, ret>>

qvars == <<query, q_pc, q_i, results, q_error>>

vars == <<avars, qvars, kept>>

\* the analyzer object
Self == [data |-> data, n_years |-> n_years]

NoCall == Call("none", <<>>, Return("None"))

\* nothing kept yet
NoKept == [times |-> 0]

\* variant in which a call leaves the sample sorted
after_call_SortsInPlace(self) == [data |-> Sort(self.data), n_years |-> self.n_years]

\* variant in which a call leaves the sample in reverse order
after_call_Reverses(self) ==
    [data |-> [i \in 1..Len(self.data) |-> self.data[Len(self.data) + 1 - i]],
     n_years |-> self.n_years]

\* the threshold dictionary after generate_risk_assessment returned: the method
\* only tests it for keys and reads its entries
thresholds_after(thresholds) == thresholds

\* the analyzer after one of its methods returned: no method assigns to
\* self.data or self.n_years, and numpy's percentile, median and sort work on copies
after_call(self) == [data |-> self.data, n_years |-> self.n_years]

InitAnalyzer ==
    /\ phase = "new"
    /\ data = <<>>
    /\ n_years = 0
    /\ warned = FALSE
    /\ ret = NoCall
    /\ query = <<>>
    /\ q_pc = "idle"
    /\ q_i = 0
    /\ results = <<>>
    /\ q_error = ""
    /\ kept = NoKept

Init == raw \in RawSamples /\ InitAnalyzer

InitYears == raw \in YearSeries /\ InitAnalyzer

\* ClimatologicalAnalyzer(historical_data)
Construct ==
    /\ phase = "new"
    /\ \E made \in {ClimatologicalAnalyzer(raw)} :
           IF made.ok
           THEN /\ phase' = "ready"
                /\ data' = made.val.data
                /\ n_years' = made.val.n_years
                /\ warned' = made.val.warned
                /\ ret' = Call("__init__", <<>>, Return("None"))
           ELSE /\ phase' = "failed"
                /\ data' = DropNaN(raw)
                /\ n_years' = Len(data')
                /\ warned' = FALSE
                /\ ret' = Call("__init__", <<>>, made)
    /\ UNCHANGED <<raw, qvars, kept>>

CalculateProbability ==
    /\ phase = "ready" /\ ret = NoCall
    /\ \E threshold \in Thresholds, condition \in Conditions :
         ret' = Call("calculate_probability", <<threshold, condition>>,
                     calculate_probability(Self, Fin(threshold), condition))
    /\ data' = after_call(Self).data
    /\ n_years' = after_call(Self).n_years
    /\ UNCHANGED <<phase, raw, warned, qvars, kept>>

GetComfortableProbability ==
    /\ phase = "ready" /\ ret = NoCall
    /\ \E lo \in Thresholds, hi \in Thresholds :
         ret' = Call("get_comfortable_probability", <<lo, hi>>,
                     get_comfortable_probability(Self, Fin(lo), Fin(hi)))
    /\ data' = after_call(Self).data
    /\ n_years' = after_call(Self).n_years
    /\ UNCHANGED <<phase, raw, warned, qvars, kept>>

CalculateReturnPeriod ==
    /\ phase = "ready" /\ ret = NoCall
    /\ \E threshold \in Thresholds, condition \in Conditions :
         ret' = Call("calculate_return_period", <<threshold, condition>>,
                     calculate_return_period(Self, Fin(threshold), condition))
    /\ data' = after_call(Self).data
    /\ n_years' = after_call(Self).n_years
    /\ UNCHANGED <<phase, raw, warned, qvars, kept>>

GetPercentiles ==
    /\ phase = "ready" /\ ret = NoCall
    /\ ret' = Call("get_percentiles", <<>>, get_percentiles(Self))
    /\ data' = after_call(Self).data
    /\ n_years' = after_call(Self).n_years
    /\ UNCHANGED <<phase, raw, warned, qvars, kept>>

DetectTrend ==
    /\ phase = "ready" /\ ret = NoCall
    /\ ret' = Call("detect_trend", <<>>, detect_trend(Self))
    /\ data' = after_call(Self).data
    /\ n_years' = after_call(Self).n_years
    /\ UNCHANGED <<phase, raw, warned, qvars, kept>>

GetExtremeValueAnalysis ==
    /\ phase = "ready" /\ ret = NoCall
    /\ \E fit \in gumbel_r_fit(data), ks \in kstest :
         ret' = Call("get_extreme_value_analysis", <<ks>>,
                     get_extreme_value_analysis(Self, fit, ks))
    /\ data' = after_call(Self).data
    /\ n_years' = after_call(Self).n_years
    /\ UNCHANGED <<phase, raw, warned, qvars, kept>>

GenerateRiskAssessment ==
    /\ phase = "ready" /\ ret = NoCall
    /\ \E thresholds \in ThresholdSets, fit \in gumbel_r_fit(data), ks \in kstest :
         ret' = Call("generate_risk_assessment", <<thresholds, thresholds_after(thresholds)>>,
                     generate_risk_assessment(Self, thresholds, fit, ks))
    /\ data' = after_call(Self).data
    /\ n_years' = after_call(Self).n_years
    /\ UNCHANGED <<phase, raw, warned, qvars, kept>>

\* _gumbel_goodness_of_fit(params), with whatever the test does for params; the
\* outcome of the test is noted with the call
GumbelGoodnessOfFit ==
    /\ phase = "ready" /\ ret = NoCall
    /\ \E ks \in kstest :
         ret' = Call("_gumbel_goodness_of_fit", <<ks>>, Return(gumbel_goodness_of_fit(ks)))
    /\ data' = after_call(Self).data
    /\ n_years' = after_call(Self).n_years
    /\ UNCHANGED <<phase, raw, warned, qvars, kept>>

\* the assessments _categorize_risk is handed: the one under construction, and
\* ones that lack basic_stats or one of the two statistics it reads
PartialAssessments(self) ==
    {<<>>,
     [basic_stats |-> BasicStats(self)],
     [basic_stats |-> [mean |-> Mean(self.data)]],
     [basic_stats |-> [std_dev |-> Std(self.data)]]}

\* _categorize_risk(assessment)
CategorizeRisk ==
    /\ phase = "ready" /\ ret = NoCall
    /\ \E assessment \in PartialAssessments(Self) :
         ret' = Call("_categorize_risk", <<assessment>>, Return(categorize_risk(assessment)))
    /\ data' = after_call(Self).data
    /\ n_years' = after_call(Self).n_years
    /\ UNCHANGED <<phase, raw, warned, qvars, kept>>

ConfidenceInterval ==
    /\ phase = "ready" /\ ret = NoCall
    /\ \E confidence_level \in ConfidenceLevels :
         ret' = Call("confidence_interval", <<confidence_level>>,
                     confidence_interval(Self, confidence_level))
    /\ data' = after_call(Self).data
    /\ n_years' = after_call(Self).n_years
    /\ UNCHANGED <<phase, raw, warned, qvars, kept>>

\* the caller takes the value (or the exception) and is ready for its next call
TakeResult ==
    /\ phase \in {"ready", "failed"} /\ ret # NoCall
    /\ ret' = NoCall
    /\ UNCHANGED <<phase, raw, data, n_years, warned, qvars, kept>>

Next ==
    \/ Construct
    \/ CalculateProbability
    \/ GetComfortableProbability
    \/ CalculateReturnPeriod
    \/ GetPercentiles
    \/ DetectTrend
    \/ GetExtremeValueAnalysis
    \/ GenerateRiskAssessment
    \/ GumbelGoodnessOfFit
    \/ CategorizeRisk
    \/ ConfidenceInterval
    \/ TakeResult

Spec == Init /\ [][Next]_vars

NextYears ==
    \/ Construct
    \/ CalculateProbability
    \/ GetComfortableProbability
    \/ CalculateReturnPeriod
    \/ TakeResult

SpecYears == InitYears /\ [][NextYears]_vars

(***************************************************************************)
(* A caller that asks for the same assessment twice, with other calls in   *)
(* between.  The library's fit and test are deterministic: the second call *)
(* meets the outcomes the first one met.                                   *)
(***************************************************************************)
\* the longest raw sequence of the callers below
MaxShort == 2

ShortSamples == SeqsUpTo(RawValues, MaxShort)

InitShort == raw \in ShortSamples /\ InitAnalyzer

AssessFirst ==
    /\ phase = "ready" /\ ret = NoCall /\ kept = NoKept
    /\ \E thresholds \in ThresholdSets, fit \in gumbel_r_fit(data), ks \in kstest :
         /\ ret' = Call("generate_risk_assessment", <<thresholds, thresholds_after(thresholds)>>,
                        generate_risk_assessment(Self, thresholds, fit, ks))
         /\ kept' = [times |-> 1, call |-> ret', fit |-> fit, ks |-> ks]
    /\ data' = after_call(Self).data
    /\ n_years' = after_call(Self).n_years
    /\ UNCHANGED <<phase, raw, warned, qvars>>

AssessAgain ==
    /\ phase = "ready" /\ ret = NoCall /\ kept.times = 1
    /\ ret' = Call("generate_risk_assessment", kept.call.args,
                   generate_risk_assessment(Self, kept.call.args[1], kept.fit, kept.ks))
    /\ kept' = [kept EXCEPT !.times = 2]
    /\ data' = after_call(Self).data
    /\ n_years' = after_call(Self).n_years
    /\ UNCHANGED <<phase, raw, warned, qvars>>

NextTwice ==
    \/ Construct
    \/ AssessFirst
    \/ GetPercentiles
    \/ DetectTrend
    \/ AssessAgain
    \/ TakeResult

SpecTwice == InitShort /\ [][NextTwice]_vars

(***************************************************************************)
(* A caller that changes its own input sequence after the construction:    *)
(* np.array copies a list, and the boolean mask makes a further copy.      *)
(***************************************************************************)
MutateInput ==
    /\ phase = "ready" /\ raw # <<>>
    /\ raw' = <<>>
    /\ UNCHANGED <<phase, data, n_years, warned, ret, qvars, kept>>

NextFrame ==
    \/ Construct
    \/ CalculateProbability
    \/ GetComfortableProbability
    \/ CalculateReturnPeriod
    \/ GetPercentiles
    \/ DetectTrend
    \/ GetExtremeValueAnalysis
    \/ GenerateRiskAssessment
    \/ ConfidenceInterval
    \/ MutateInput
    \/ TakeResult

SpecFrame == InitShort /\ [][NextFrame]_vars

(***************************************************************************)
(* A caller with a record of up to MaxSample years that asks for the       *)
(* confidence interval of the mean.                                        *)
(***************************************************************************)
\* the longest record of such a caller
MaxSample == 30

\* at most MaxWarm warm years (reading 1) lead a record of cold ones (reading 0)
MaxWarm == 2

LongSeries ==
    {[i \in 1..n |-> IF i <= k THEN Fin(1) ELSE Fin(0)] : n \in 1..MaxSample, k \in 0..MaxWarm}

InitLong == raw \in LongSeries /\ InitAnalyzer

NextLong ==
    \/ Construct
    \/ ConfidenceInterval
    \/ TakeResult

SpecLong == InitLong /\ [][NextLong]_vars

(***************************************************************************)
(* process_query, one step per statement group: the date, one pass of the  *)
(* loop per parameter, the summary.                                        *)
(***************************************************************************)
MaxParams == 2

Locations == {[lat |-> 0, lon |-> 0], [lon |-> 0]}

AnalysisYears == {-1, 0, MinRealYears}

Queries ==
    [location : Locations, date : DateStrings,
     parameters : SeqsUpTo(Catalogue, MaxParams), analysis_years : AnalysisYears]

\* the state at the entry of process_query
QueryStart ==
    /\ q_pc = "start"
    /\ q_i = 1
    /\ results = [location |-> query.location, query_date |-> query.date,
                  analysis_years |-> query.analysis_years, parameters |-> <<>>]
    /\ q_error = ""
    /\ phase = "unused"
    /\ raw = <<>>
    /\ data = <<>>
    /\ n_years = 0
    /\ warned = FALSE
    /\ ret = NoCall
    /\ kept = NoKept

InitQuery == query \in Queries /\ QueryStart

\* the date is converted to a day of the year, or the query is refused
ParseDate ==
    /\ q_pc = "start"
    /\ IF WellFormedDate(query.date)
       THEN q_pc' = "loop" /\ q_error' = q_error
       ELSE q_pc' = "raised" /\ q_error' = "Date must be in format YYYY-MM-DD"
    /\ UNCHANGED <<avars, query, q_i, results, kept>>

\* one pass of the loop: fetch, analyse, interpret and store, or store the error
ProcessParameter ==
    /\ q_pc = "loop"
    /\ q_i <= Len(query.parameters)
    /\ LET param == query.parameters[q_i]
       IN  \E readings \in Readings(query.analysis_years) :
             \E entry \in ParameterEntries(param, query.location,
                                           query.analysis_years, readings) :
                results' = [results EXCEPT !.parameters = Put(@, param, entry)]
    /\ q_i' = q_i + 1
    /\ UNCHANGED <<avars, query, q_pc, q_error, kept>>

\* after the loop the summary is added and the result returned
ReturnResults ==
    /\ q_pc = "loop"
    /\ q_i > Len(query.parameters)
    /\ results' = results @@ [summary |-> generate_summary(results)]
    /\ q_pc' = "returned"
    /\ UNCHANGED <<avars, query, q_i, q_error, kept>>

NextQuery == ParseDate \/ ProcessParameter \/ ReturnResults

SpecQuery == InitQuery /\ [][NextQuery]_vars

(***************************************************************************)
(* process_query while the provider refuses every request.                 *)
(***************************************************************************)
OfflineYears == {0, 1, MinRealYears}

OfflineQueries ==
    [location : Locations, date : DateStrings,
     parameters : SeqsUpTo(Catalogue, MaxParams), analysis_years : OfflineYears]

InitOffline == query \in OfflineQueries /\ QueryStart

\* one pass of the loop, every request of which falls back to random values
ProcessParameterOffline ==
    /\ q_pc = "loop"
    /\ q_i <= Len(query.parameters)
    /\ LET param == query.parameters[q_i]
       IN  \E readings \in OfflineReadings(query.analysis_years) :
             \E entry \in ParameterEntries(param, query.location,
                                           query.analysis_years, readings) :
                results' = [results EXCEPT !.parameters = Put(@, param, entry)]
    /\ q_i' = q_i + 1
    /\ UNCHANGED <<avars, query, q_pc, q_error, kept>>

NextOffline == ParseDate \/ ProcessParameterOffline \/ ReturnResults

SpecOffline == InitOffline /\ [][NextOffline]_vars

(***************************************************************************)
(* process_query for a place whose readings average zero: a day on which   *)
(* it never rained, or temperatures that cancel out around the freezing    *)
(* point.                                                                  *)
(***************************************************************************)
\* what the yearly requests bring back there, next to an ordinary series
DryReadings(years_back) ==
    {[i \in 1..years_back |-> Fin(0)],
     [i \in 1..years_back |-> IF i = 1 THEN Fin(-1) ELSE IF i = 2 THEN Fin(1) ELSE Fin(0)],
     [i \in 1..years_back |-> Fin(20)]}

DryQueries ==
    [location : {[lat |-> 0, lon |-> 0]}, date : {"2024-07-15"},
     parameters : SeqsUpTo({"t_2m:C", "precip_24h:mm"}, MaxParams),
     analysis_years : {MinRealYears}]

InitDry == query \in DryQueries /\ QueryStart

ProcessParameterDry ==
    /\ q_pc = "loop"
    /\ q_i <= Len(query.parameters)
    /\ LET param == query.parameters[q_i]
       IN  \E readings \in DryReadings(query.analysis_years) :
             \E entry \in ParameterEntries(param, query.location,
                                           query.analysis_years, readings) :
                results' = [results EXCEPT !.parameters = Put(@, param, entry)]
    /\ q_i' = q_i + 1
    /\ UNCHANGED <<avars, query, q_pc, q_error, kept>>

NextDry == ParseDate \/ ProcessParameterDry \/ ReturnResults

SpecDry == InitDry /\ [][NextDry]_vars

(***************************************************************************)
(* A caller that validates its inputs and then runs the query with them.   *)
(***************************************************************************)
CheckedLocations ==
    {[lat |-> Fin(0), lon |-> Fin(0)], [lat |-> Fin(90), lon |-> Fin(-180)], [lon |-> Fin(0)],
     [lat |-> Fin(91), lon |-> Fin(0)], [lat |-> Fin(0), lon |-> Fin(-181)],
     [lat |-> NotNumeric, lon |-> Fin(0)], [lat |-> NaN, lon |-> Fin(0)]}

CheckedDates == DateStrings \cup {"2024-7-5"}

CheckedParameters == {"t_2m:C", "snow_depth:cm", NoneParam}

CheckedQueries ==
    [location : CheckedLocations, date : CheckedDates,
     parameters : SeqsUpTo(CheckedParameters, MaxParams), analysis_years : {1}]

InitChecked == query \in CheckedQueries /\ QueryStart

\* validate_inputs(location, date, parameters), before the query is run
ValidateInputs ==
    /\ q_pc = "start" /\ ret = NoCall
    /\ ret' = Call("validate_inputs", <<query.location, query.date, query.parameters>>,
                   validate_inputs(query.location, query.date, query.parameters))
    /\ UNCHANGED <<phase, raw, data, n_years, warned, qvars, kept>>

NextChecked == ValidateInputs \/ ParseDate \/ ProcessParameter \/ ReturnResults

SpecChecked == InitChecked /\ [][NextChecked]_vars

(***************************************************************************)
(* A caller that asks get_historical_data for the same series twice while  *)
(* the provider refuses every request.  get_climatology answers each       *)
(* refused request with a value drawn without a seed, so the second call   *)
(* meets draws of its own.                                                 *)
(***************************************************************************)
\* the years_back a caller passes, a negative count included
FetchYears == -1..MaxYears

InitFetch == raw = <<>> /\ InitAnalyzer

FetchFirst ==
    /\ kept = NoKept
    /\ \E parameter \in Catalogue, years_back \in FetchYears :
         \E readings \in OfflineReadings(years_back) :
            /\ ret' = Call("get_historical_data", <<parameter, years_back>>,
                           get_historical_data(parameter, years_back, readings))
            /\ kept' = [times |-> 1, call |-> ret']
    /\ UNCHANGED <<phase, raw, data, n_years, warned, qvars>>

FetchAgain ==
    /\ kept.times = 1
    /\ \E readings \in OfflineReadings(kept.call.args[2]) :
         ret' = Call("get_historical_data", kept.call.args,
                     get_historical_data(kept.call.args[1], kept.call.args[2], readings))
    /\ kept' = [kept EXCEPT !.times = 2]
    /\ UNCHANGED <<phase, raw, data, n_years, warned, qvars>>

NextFetch == FetchFirst \/ FetchAgain

SpecFetch == InitFetch /\ [][NextFetch]_vars

(***************************************************************************)
(* Claims.                                                                 *)
(***************************************************************************)
IsCall(op) == ret.op = op /\ ret.out.ok

\* entries of the sequence s that satisfy P, as a count
CountOf(s, P(_)) == Cardinality({i \in 1..Len(s) : P(s[i])})

\* C1: after construction the retained sample holds no NaN, +inf or -inf, keeps
\* every finite entry of the raw sequence in its order, and n_years is the
\* number of finite entries.
C1_RetainedSampleIsFinite ==
    phase = "ready" =>
        /\ \A i \in 1..Len(data) : IsFinite(data[i])
        /\ data = SelectSeq(raw, IsFinite)
        /\ n_years = CountOf(raw, IsFinite)

\* C2: construction fails exactly when the cleaned sample, the finite entries
\* of the raw sequence, is empty; whenever at least one value is retained it
\* succeeds with n_years >= 1.
C2_FailsIffCleanedSampleEmpty ==
    phase # "new" =>
        /\ (phase = "failed") <=> (CountOf(raw, IsFinite) = 0)
        /\ phase = "ready" => n_years >= 1

\* observation x lies strictly above / strictly below the integer t
Above(x, t) == x.k = "pinf" \/ (x.k = "fin" /\ x.n > t * x.d)

Below(x, t) == x.k = "ninf" \/ (x.k = "fin" /\ x.n < t * x.d)

\* C4: calculate_probability returns count / n with count the observations
\* strictly above (exceeds) or strictly below (below) the threshold; ties are
\* counted in neither direction and the result lies in [0, 1].
C4_ProbabilityIsStrictCount ==
    ret.op = "calculate_probability" /\ ret.args[2] \in {"exceeds", "below"} =>
        LET t == ret.args[1]
            above == CountOf(data, LAMBDA x : Above(x, t))
            below == CountOf(data, LAMBDA x : Below(x, t))
            ties == CountOf(data, LAMBDA x : x = Fin(t))
        IN  /\ ret.out.ok
            /\ ret.args[2] = "exceeds" => ret.out.val = FDiv(FromInt(above), FromInt(n_years))
            /\ ret.args[2] = "below" => ret.out.val = FDiv(FromInt(below), FromInt(n_years))
            /\ above + below + ties = n_years
            /\ FLe(FZero, ret.out.val) /\ FLe(ret.out.val, FOne)

C4_Witness ==
    /\ IsCall("calculate_probability") /\ ret.args[2] = "exceeds"
    /\ \E i \in 1..Len(data) : data[i] = Fin(ret.args[1])
    /\ \E i \in 1..Len(data) : Above(data[i], ret.args[1])
    /\ FLt(FZero, ret.out.val) /\ FLt(ret.out.val, FOne)

\* C5: get_comfortable_probability returns the fraction of observations x with
\* min <= x <= max, both endpoints included, and 0 whenever min > max.
C5_ComfortableIsClosedInterval ==
    ret.op = "get_comfortable_probability" =>
        LET lo == ret.args[1]
            hi == ret.args[2]
            inside == CountOf(data, LAMBDA x : ~Below(x, lo) /\ ~Above(x, hi))
        IN  /\ ret.out.ok
            /\ ret.out.val = FDiv(FromInt(inside), FromInt(n_years))
            /\ lo > hi => ret.out.val = FZero

C5_Witness ==
    /\ IsCall("get_comfortable_probability") /\ ret.args[1] < ret.args[2]
    /\ \E i \in 1..Len(data) : data[i] = Fin(ret.args[1])
    /\ \E i \in 1..Len(data) : data[i] = Fin(ret.args[2])
    /\ \E i \in 1..Len(data) : Above(data[i], ret.args[2])
    /\ FLt(FZero, ret.out.val) /\ FLt(ret.out.val, FOne)

\* the probability the return period of the call in ret was computed from
ProbabilityOfCall ==
    calculate_probability(Self, Fin(ret.args[1]), ret.args[2])

\* C6 as stated: the return period is +inf exactly when the probability is
\* 0, and otherwise probability * return_period = 1 with return_period >= 1.
C6_ProductIsExactlyOne ==
    ret.op = "calculate_return_period" /\ ret.out.ok =>
        LET p == ProbabilityOfCall.val
            rp == ret.out.val
        IN  /\ (rp = FInf) <=> (p = FZero)
            /\ p # FZero => FMul(p, rp) = FOne /\ FLe(FOne, rp)

\* C6: the return period is +inf exactly when the probability is 0;
\* otherwise it is finite, at least 1, and probability * return_period is 1
\* or the double next below 1 (1 - 2^-53).
C6_ProductIsOneWithinRounding ==
    ret.op = "calculate_return_period" /\ ret.out.ok =>
        LET p == ProbabilityOfCall.val
            rp == ret.out.val
        IN  /\ (rp = FInf) <=> (p = FZero)
            /\ p # FZero => /\ rp.f = "num"
                            /\ FLe(FOne, rp)
                            /\ FMul(p, rp) \in {FOne, FPredOne}

C6_Witness ==
    /\ IsCall("calculate_return_period")
    /\ ProbabilityOfCall.val # FZero
    /\ FMul(ProbabilityOfCall.val, ret.out.val) = FPredOne

\* C7: the percentile table is non-decreasing in rank and every percentile
\* lies between the sample minimum and maximum.
C7_PercentilesOrdered ==
    ret.op = "get_percentiles" =>
        LET p == ret.out.val
            table == <<p.p10, p.p25, p.p50, p.p75, p.p90, p.p95, p.p99>>
        IN  /\ ret.out.ok
            /\ \A i \in 1..(Len(table) - 1) : Le(table[i], table[i + 1])
            /\ \A i \in 1..Len(table) : Le(Min(data), table[i]) /\ Le(table[i], Max(data))

\* C8: when the regression succeeds, the direction is 'increasing' exactly
\* when slope > 0 and 'decreasing' otherwise (a slope of exactly 0 included);
\* 'no trend' appears only in the reduced record that carries an error.
C8_DirectionFollowsSlope ==
    ret.op = "detect_trend" =>
        LET t == ret.out.val
        IN  /\ ret.out.ok
            /\ t.direction \in {"increasing", "decreasing", "no trend"}
            /\ "error" \notin DOMAIN t =>
                 /\ (t.direction = "increasing") <=> Gt(t.slope, Fin(0))
                 /\ (t.direction = "decreasing") <=> ~Gt(t.slope, Fin(0))
            /\ (t.direction = "no trend") <=> ("error" \in DOMAIN t)

C8_Witness ==
    /\ IsCall("detect_trend") /\ n_years >= 3 /\ ~AllSame(data)
    /\ "error" \notin DOMAIN ret.out.val
    /\ Eq(ret.out.val.slope, Fin(0))
    /\ ret.out.val.direction = "decreasing"

\* C9: for a degenerate sample (all observations equal, or n < 2) detect_trend
\* returns the reduced record: slope 0, p_value 1, not significant, direction
\* 'no trend' and a non-empty error.
C9_DegenerateSampleGivesReducedRecord ==
    ret.op = "detect_trend" /\ (AllSame(data) \/ n_years < 2) =>
        LET t == ret.out.val
        IN  /\ ret.out.ok
            /\ DOMAIN t = {"slope", "p_value", "significant", "direction", "error"}
            /\ t.slope = Fin(0)
            /\ t.p_value = PExact(Fin(1))
            /\ t.significant = FALSE
            /\ t.direction = "no trend"
            /\ t.error # ""

\* the fit of the retained sample fails
FitFails == \A fit \in gumbel_r_fit(data) : ~fit.ok

\* C10: when the Gumbel fit fails, get_extreme_value_analysis returns a
\* record with an 'error' field and nothing else, and generate_risk_assessment
\* still returns the basic statistics, the percentiles, the trend, the
\* requested threshold figures and the risk category beside that record.
C10_FitFailureIsContained ==
    FitFails =>
        /\ ret.op = "get_extreme_value_analysis" =>
             /\ ret.out.ok
             /\ DOMAIN ret.out.val = {"error"}
             /\ ret.out.val.error # ""
        /\ ret.op = "generate_risk_assessment" =>
             LET a == ret.out.val
                 thresholds == ret.args[1]
             IN  /\ ret.out.ok
                 /\ DOMAIN a.extreme_values = {"error"}
                 /\ a.extreme_values.error # ""
                 /\ {"basic_stats", "percentiles", "trend_analysis", "risk_category"}
                        \subseteq DOMAIN a
                 /\ a.percentiles = get_percentiles(Self).val
                 /\ a.trend_analysis = detect_trend(Self).val
                 /\ "hot" \in DOMAIN thresholds =>
                        {"very_hot_probability", "hot_return_period"} \subseteq DOMAIN a
                 /\ "cold" \in DOMAIN thresholds =>
                        {"very_cold_probability", "cold_return_period"} \subseteq DOMAIN a
                 /\ "comfortable" \in DOMAIN thresholds =>
                        "comfortable_probability" \in DOMAIN a

C10_Witness ==
    /\ IsCall("generate_risk_assessment") /\ FitFails
    /\ AllSame(data) /\ n_years >= 2
    /\ "hot" \in DOMAIN ret.args[1]
    /\ DOMAIN ret.out.val.extreme_values = {"error"}
    /\ ret.out.val.risk_category = "Low"

\* every entry process_query may store for a parameter when that parameter is
\* the only one asked for, by parameter, location and number of years
EntryTable ==
    {<<param, location, years,
       UNION {ParameterEntries(param, location, years, readings) : readings \in Readings(years)}>> :
       param \in Catalogue, location \in Locations, years \in AnalysisYears}

EntriesAlone(param, location, years) ==
    (CHOOSE row \in EntryTable : row[1] = param /\ row[2] = location /\ row[3] = years)[4]

IsErrorRecord(entry) == "error" \in DOMAIN entry /\ entry.error # ""

IsFullAssessment(entry) ==
    /\ "error" \notin DOMAIN entry
    /\ {"basic_stats", "percentiles", "trend_analysis", "extreme_values", "risk_category",
        "parameter_info", "interpretation"} \subseteq DOMAIN entry

\* C3: for a well-formed date process_query never raises; every parameter
\* processed so far, and on return every requested parameter, has an entry
\* that is a full assessment or a record with an error, and that entry is one
\* the parameter gets when it is asked for alone, whatever happened to the
\* other parameters.
C3_EveryParameterHasItsEntry ==
    WellFormedDate(query.date) =>
        /\ q_pc # "raised"
        /\ q_pc = "returned" => q_i = Len(query.parameters) + 1 /\ "summary" \in DOMAIN results
        /\ q_pc \in {"loop", "returned"} =>
             /\ {results.parameters[i][1] : i \in 1..Len(results.parameters)}
                    = {query.parameters[j] : j \in 1..(q_i - 1)}
             /\ \A j \in 1..(q_i - 1) :
                    /\ Has(results.parameters, query.parameters[j])
                    /\ Get(results.parameters, query.parameters[j])
                           \in EntriesAlone(query.parameters[j], query.location,
                                            query.analysis_years)
             /\ \A i \in 1..Len(results.parameters) :
                    IsErrorRecord(results.parameters[i][2])
                    \/ IsFullAssessment(results.parameters[i][2])

C3_Witness ==
    /\ q_pc = "returned"
    /\ Len(query.parameters) = 2
    /\ Len(results.parameters) = 2
    /\ IsErrorRecord(Get(results.parameters, query.parameters[1]))
    /\ IsFullAssessment(Get(results.parameters, query.parameters[2]))
    /\ results.summary.failed_analyses = 1
    /\ results.summary.successful_analyses = 1

\* the sample holds a single finite value
OneFiniteValue == n_years = 1 /\ IsFinite(data[1])

\* C11: generate_risk_assessment never raises; its result always holds
\* basic_stats, percentiles, trend_analysis, extreme_values and risk_category,
\* and each of them is what its own computation gives for the sample, whether
\* or not the trend regression or the extreme-value fit failed.
C11_SubResultsAreIndependent ==
    ret.op = "generate_risk_assessment" =>
        /\ ret.out.ok
        /\ {"basic_stats", "percentiles", "trend_analysis", "extreme_values", "risk_category"}
               \subseteq DOMAIN ret.out.val
        /\ ret.out.val.basic_stats = BasicStats(Self)
        /\ ret.out.val.percentiles = get_percentiles(Self).val
        /\ ret.out.val.trend_analysis = detect_trend(Self).val
        /\ ret.out.val.risk_category = categorize_risk([basic_stats |-> BasicStats(Self)])
        /\ ret.out.val.risk_category # "Unknown"
        /\ ret.out.val.extreme_values
               \in {get_extreme_value_analysis(Self, fit, ks).val :
                        fit \in gumbel_r_fit(data), ks \in kstest}

C11_Witness ==
    /\ IsCall("generate_risk_assessment") /\ FitFails /\ OneFiniteValue
    /\ "error" \in DOMAIN ret.out.val.extreme_values
    /\ "error" \notin DOMAIN ret.out.val.trend_analysis
    /\ "percentiles" \in DOMAIN ret.out.val
    /\ "comfortable_probability" \in DOMAIN ret.out.val

\* C12: the assessment holds very_hot_probability and hot_return_period exactly
\* when the thresholds have a 'hot' entry, very_cold_probability and
\* cold_return_period exactly when they have a 'cold' entry, and
\* comfortable_probability exactly when they have a 'comfortable' entry; a
\* present figure is the one its own method returns, an absent one is no field.
C12_FieldsFollowThresholdEntries ==
    ret.op = "generate_risk_assessment" =>
        LET a == ret.out.val
            thresholds == ret.args[1]
        IN  /\ \A field \in {"very_hot_probability", "hot_return_period"} :
                   (field \in DOMAIN a) <=> ("hot" \in DOMAIN thresholds)
            /\ \A field \in {"very_cold_probability", "cold_return_period"} :
                   (field \in DOMAIN a) <=> ("cold" \in DOMAIN thresholds)
            /\ ("comfortable_probability" \in DOMAIN a) <=> ("comfortable" \in DOMAIN thresholds)
            /\ "hot" \in DOMAIN thresholds =>
                   /\ a.very_hot_probability
                          = calculate_probability(Self, Fin(thresholds.hot), "exceeds").val
                   /\ a.hot_return_period
                          = calculate_return_period(Self, Fin(thresholds.hot), "exceeds").val
            /\ "cold" \in DOMAIN thresholds =>
                   /\ a.very_cold_probability
                          = calculate_probability(Self, Fin(thresholds.cold), "below").val
                   /\ a.cold_return_period
                          = calculate_return_period(Self, Fin(thresholds.cold), "below").val
            /\ "comfortable" \in DOMAIN thresholds =>
                   a.comfortable_probability
                       = get_comfortable_probability(Self, Fin(thresholds.comfortable.min),
                                                     Fin(thresholds.comfortable.max)).val

C12_Witness ==
    /\ IsCall("generate_risk_assessment")
    /\ DOMAIN ret.args[1] = {"wet", "dry"}
    /\ DOMAIN ret.out.val
         = {"basic_stats", "percentiles", "trend_analysis", "extreme_values", "risk_category"}

\* r >= q for a root r and a rational q > 0; false when r is NaN
RootGe(r, q) == ~IsNaN(r.sq) /\ ~RootLt(r, q)

\* cv = std_dev / |mean| of the retained sample, +infinity for a mean of 0
SampleVariation == CoefficientOfVariation(Std(data), Mean(data))

\* C13: risk_category is Low iff cv < 0.1, Moderate iff 0.1 <= cv < 0.3, High
\* iff 0.3 <= cv < 0.5 and Very High iff cv >= 0.5, with cv = std_dev / |mean|
\* and cv = +infinity for a mean of 0; a constant non-zero sample is Low.
C13_CategoryFollowsVariation ==
    ret.op = "generate_risk_assessment" =>
        LET category == ret.out.val.risk_category
        IN  /\ (category = "Low") <=> RootLt(SampleVariation, Rat(1, 10))
            /\ (category = "Moderate") <=>
                   RootGe(SampleVariation, Rat(1, 10)) /\ RootLt(SampleVariation, Rat(3, 10))
            /\ (category = "High") <=>
                   RootGe(SampleVariation, Rat(3, 10)) /\ RootLt(SampleVariation, Rat(5, 10))
            /\ (category = "Very High") <=> RootGe(SampleVariation, Rat(5, 10))
            /\ AllSame(data) /\ ~Eq(data[1], Fin(0)) => category = "Low"

\* the end of an interval is NaN: its centre or its offset is, or they are
\* infinities of opposite sign
EndIsNaN(e) ==
    \/ IsNaN(e.centre) \/ IsNaN(e.offset.sq)
    \/ IsInf(e.centre) /\ IsInf(e.offset.sq) /\ Sgn(e.centre) # e.offset.s

\* end e of an interval around its own centre is at most / at least that centre
EndLeCentre(e) == ~EndIsNaN(e) /\ (e.offset.s <= 0 \/ Eq(e.offset.sq, Fin(0)))

EndGeCentre(e) == ~EndIsNaN(e) /\ (e.offset.s >= 0 \/ Eq(e.offset.sq, Fin(0)))

\* C14: confidence_interval returns (lower, upper) with lower <= mean <= upper
\* and mean - lower == upper - mean.
C14_IntervalBracketsMean ==
    ret.op = "confidence_interval" =>
        /\ ret.out.ok
        /\ ret.out.val[1].centre = Mean(data) /\ ret.out.val[2].centre = Mean(data)
        /\ EndLeCentre(ret.out.val[1])
        /\ EndGeCentre(ret.out.val[2])
        /\ Eq(ret.out.val[1].offset.sq, ret.out.val[2].offset.sq)

C16_SampleAndThresholdsUntouched ==
    [][phase = "ready" =>
          /\ data' = data
          /\ n_years' = n_years
          /\ ret'.op = "generate_risk_assessment" => ret'.args[2] = ret'.args[1]]_vars

C16_Witness ==
    /\ phase = "ready" /\ raw = <<>>
    /\ IsCall("get_percentiles")
    /\ n_years = 2 /\ Gt(data[1], data[2])

\* the extreme-value record of the last call, when it returned one
ExtremeRecords ==
    IF ret.op = "get_extreme_value_analysis" THEN {ret.out.val}
    ELSE IF ret.op = "generate_risk_assessment" THEN {ret.out.val.extreme_values}
    ELSE {}

\* the goodness-of-fit record of the last call, when it returned one
FitQualityRecords ==
    {ev.goodness_of_fit : ev \in {e \in ExtremeRecords : "goodness_of_fit" \in DOMAIN e}}
    \cup (IF ret.op = "_gumbel_goodness_of_fit" THEN {ret.out.val} ELSE {})

\* C17: whenever a sub-computation fails, the part of the result it stands
\* for carries an 'error' description: the reduced trend record, the
\* extreme-value record of a failed fit, the goodness-of-fit record of a
\* failed test, and a risk category that could not be computed.
C17_EveryFailureCarriesAnError ==
    /\ ret.op = "detect_trend" /\ ret.out.val.direction = "no trend" =>
           "error" \in DOMAIN ret.out.val
    /\ \A ev \in ExtremeRecords : FitFails => "error" \in DOMAIN ev
    /\ \A gof \in FitQualityRecords : gof.fit_quality = "unknown" => "error" \in DOMAIN gof
    /\ ret.op = "_categorize_risk" => ret.out.val # "Unknown"

\* the return periods and the keys their return values are stored under
PeriodKeys ==
    <<[T |-> 2, key |-> "2_year"], [T |-> 5, key |-> "5_year"], [T |-> 10, key |-> "10_year"],
      [T |-> 20, key |-> "20_year"], [T |-> 50, key |-> "50_year"], [T |-> 100, key |-> "100_year"]>>

\* the extreme-value records of the last call whose fit gave a positive scale
FittedRecords ==
    {ev \in ExtremeRecords :
        "distribution_params" \in DOMAIN ev /\ Gt(ev.distribution_params.scale, Fin(0))}

\* C18: when the fit succeeds with a positive scale, the return-value table has
\* exactly the keys 2_year, 5_year, 10_year, 20_year, 50_year and 100_year, each
\* holding mu - beta * ln(-ln(1 - 1/T)), and the values do not decrease with T.
C18_ReturnValuesGrowWithPeriod ==
    \A ev \in FittedRecords :
        /\ DOMAIN ev.return_values = {PeriodKeys[i].key : i \in 1..Len(PeriodKeys)}
        /\ \A i \in 1..Len(PeriodKeys) :
               ev.return_values[PeriodKeys[i].key]
                   = Add(ev.distribution_params.loc,
                         Mul(ev.distribution_params.scale,
                             Rat(GumbelVariate[PeriodKeys[i].T], 10000)))
        /\ \A i \in 1..(Len(PeriodKeys) - 1) :
               Le(ev.return_values[PeriodKeys[i].key], ev.return_values[PeriodKeys[i + 1].key])

C18_Witness ==
    /\ IsCall("get_extreme_value_analysis")
    /\ FittedRecords # {}
    /\ Lt(ret.out.val.return_values["2_year"], ret.out.val.return_values["5_year"])
    /\ Lt(ret.out.val.return_values["50_year"], ret.out.val.return_values["100_year"])

\* the query is one process_query is documented for: a date it can read, a
\* location with both coordinates, parameter codes that are strings and at
\* least one year to analyse
UsableQuery ==
    /\ WellFormedDate(query.date)
    /\ {"lat", "lon"} \subseteq DOMAIN query.location
    /\ \A i \in 1..Len(query.parameters) : IsStr(query.parameters[i])
    /\ query.analysis_years >= 1

\* every stored entry is a successful assessment of at least one year
AllAssessed ==
    \A i \in 1..Len(results.parameters) :
        /\ "error" \notin DOMAIN results.parameters[i][2]
        /\ "basic_stats" \in DOMAIN results.parameters[i][2]
        /\ results.parameters[i][2].basic_stats.data_years > 0

\* C19 as stated: with the provider unavailable for every request,
\* process_query completes without raising and every requested parameter gets
\* a successful assessment (no 'error', data_years > 0), so failed_analyses is 0.
C19_OfflineQueryAlwaysSucceeds ==
    /\ q_pc # "raised"
    /\ q_pc = "returned" =>
           /\ \A j \in 1..Len(query.parameters) : Has(results.parameters, query.parameters[j])
           /\ AllAssessed
           /\ results.summary.failed_analyses = 0

\* C19, amended: the same for a query with a well-formed date, a location with
\* lat and lon, string parameter codes and analysis_years >= 1.
C19_UsableOfflineQuerySucceeds ==
    UsableQuery =>
        /\ q_pc # "raised"
        /\ q_pc \in {"loop", "returned"} => AllAssessed
        /\ q_pc = "returned" =>
               /\ \A j \in 1..Len(query.parameters) :
                      Has(results.parameters, query.parameters[j])
               /\ results.summary.failed_analyses = 0
               /\ results.summary.successful_analyses = Len(results.parameters)

C19_Witness ==
    /\ UsableQuery /\ q_pc = "returned"
    /\ query.analysis_years = 1
    /\ Len(results.parameters) = 2
    /\ AllAssessed
    /\ results.summary.failed_analyses = 0

\* the value at fractional position q/100 * (n - 1) of the sorted sample a, on
\* the straight line between the two order statistics around that position
Interpolated(a, q) ==
    LET n == Len(a)
        below == ((n - 1) * q) \div 100
        above == IF below + 1 > n - 1 THEN n - 1 ELSE below + 1
    IN  Add(Sort(a)[below + 1],
            Mul(Sub(Sort(a)[above + 1], Sort(a)[below + 1]), Rat(((n - 1) * q) % 100, 100)))

\* the percentile table t, by rank
ByRank(t) == <<t.p10, t.p25, t.p50, t.p75, t.p90, t.p95, t.p99>>

\* C20: every reported percentile equals the linear interpolation between the
\* two order statistics around position p/100 * (n - 1) of the sorted sample;
\* percentiles.p50 equals basic_stats.median, and for n = 1 every percentile
\* equals the single observation.
C20_PercentilesInterpolate ==
    /\ ret.op = "get_percentiles" =>
           \A i \in 1..Len(PercentileRanks) :
               /\ Eq(ByRank(ret.out.val)[i], Interpolated(data, PercentileRanks[i]))
               /\ n_years = 1 => Eq(ByRank(ret.out.val)[i], data[1])
    /\ ret.op = "generate_risk_assessment" =>
           Eq(ret.out.val.percentiles.p50, ret.out.val.basic_stats.median)

\* the full trend record of the last call, when the regression did not raise
FullTrendRecords ==
    IF ret.op = "detect_trend" /\ "error" \notin DOMAIN ret.out.val THEN {ret.out.val}
    ELSE {}

\* 0 <= r <= 1 for a root r; false when r is NaN
RootInUnit(r) == ~IsNaN(r.sq) /\ r.s >= 0 /\ Le(r.sq, Fin(1))

\* C21: when the regression succeeds the trend record has exactly the fields
\* slope, intercept, r_value, p_value, std_err, significant, direction and
\* trend_strength; significant holds exactly when p_value < 0.05,
\* trend_strength is |r_value| and lies in [0, 1], and the slope is that of the
\* observations against their 0-based positions in the retained sample.
C21_TrendRecordIsComplete ==
    \A t \in FullTrendRecords :
        /\ DOMAIN t = {"slope", "intercept", "r_value", "p_value", "std_err",
                       "significant", "direction", "trend_strength"}
        /\ t.significant <=> PBelow05(t.p_value)
        /\ t.trend_strength.sq = t.r_value.sq /\ t.trend_strength.s = Abs(t.r_value.s)
        /\ RootInUnit(t.trend_strength)
        /\ t.slope = Div(Cov([i \in 1..n_years |-> Fin(i - 1)], data),
                         Cov([i \in 1..n_years |-> Fin(i - 1)], [i \in 1..n_years |-> Fin(i - 1)]))

\* the coefficient of variation _categorize_risk works with is NaN
VariationIsNaN(assessment) ==
    IsNaN(CoefficientOfVariation(assessment.basic_stats.std_dev,
                                 assessment.basic_stats.mean).sq)

\* the assessment lacks basic_stats, or basic_stats lacks mean or std_dev
LacksStatistics(assessment) ==
    \/ "basic_stats" \notin DOMAIN assessment
    \/ {"std_dev", "mean"} \ DOMAIN assessment.basic_stats # {}

\* C22: _categorize_risk never raises; it returns 'Unknown' when basic_stats,
\* mean or std_dev is missing or when the coefficient of variation is not a
\* number, and one of the four categories only for a cv that is a number.
C22_UnknownWhenVariationUndefined ==
    ret.op = "_categorize_risk" =>
        /\ ret.out.ok
        /\ LacksStatistics(ret.args[1]) => ret.out.val = "Unknown"
        /\ ~LacksStatistics(ret.args[1]) =>
               (VariationIsNaN(ret.args[1]) <=> ret.out.val = "Unknown")

\* the squared standard error of the mean of sample a, with the variance taken
\* over n - 1: sum((a[i] - mean)^2) / (n - 1) / n
BesselSemSq(a) ==
    LET SquaredDeviations(m) == [i \in 1..Len(a) |-> Mul(Sub(a[i], m), Sub(a[i], m))]
    IN  Div(Div(SumSeq(SquaredDeviations(Div(SumSeq(a), Fin(Len(a))))), Fin(Len(a) - 1)),
            Fin(Len(a)))

\* the squared critical value the interval of n observations is built with:
\* Student's t with n - 1 degrees of freedom below 30 observations, the
\* standard normal from 30 on
CriticalSq(level, n) ==
    IF n >= 30 THEN (IF level = Rat(95, 100) THEN Rat(38415, 10000) ELSE Rat(27055, 10000))
    ELSE IF n < 2 THEN NaN
    ELSE IF level = Rat(95, 100) THEN Rat(TCritSq[n - 1], 10000)
    ELSE Rat(T95Sq[n - 1], 10000)

\* C23: the margin of the confidence interval is critical value times standard
\* error, the critical value being Student's t quantile with n - 1 degrees of
\* freedom exactly when n < 30 and the standard normal quantile when n >= 30,
\* the standard error that of the Bessel-corrected standard deviation.
C23_QuantileFollowsSampleSize ==
    ret.op = "confidence_interval" =>
        /\ ret.out.ok
        /\ \A j \in 1..2 :
               ret.out.val[j].offset.sq
                   = Mul(CriticalSq(ret.args[1], n_years), BesselSemSq(data))

C23_Witness ==
    /\ IsCall("confidence_interval")
    /\ n_years = 30 /\ ~AllSame(data)
    /\ ret.args[1] = Rat(95, 100)
    /\ ret.out.val[2].offset.sq = Mul(Rat(38415, 10000), BesselSemSq(data))
    /\ ret.out.val[2].offset.sq # Mul(Rat(TCritSq[29], 10000), BesselSemSq(data))

\* the extreme-value records of the last call whose fit succeeded
SuccessfulExtremeRecords == {ev \in ExtremeRecords : "error" \notin DOMAIN ev}

\* C24: in an extreme-value result without error, fit_quality is 'good' exactly
\* when the p-value of the Kolmogorov-Smirnov test exceeds 0.05 and 'poor'
\* otherwise, 0.05 itself included; when the test raised, fit_quality is
\* 'unknown' and distribution_params and return_values are returned all the same.
C24_FitQualityFollowsPValue ==
    /\ \A ev \in SuccessfulExtremeRecords :
           /\ DOMAIN ev = {"distribution_params", "return_values", "goodness_of_fit"}
           /\ IF "ks_p_value" \in DOMAIN ev.goodness_of_fit
              THEN /\ (ev.goodness_of_fit.fit_quality = "good")
                          <=> Gt(ev.goodness_of_fit.ks_p_value, Rat(5, 100))
                   /\ (ev.goodness_of_fit.fit_quality = "poor")
                          <=> ~Gt(ev.goodness_of_fit.ks_p_value, Rat(5, 100))
              ELSE ev.goodness_of_fit = [fit_quality |-> "unknown"]
    /\ ret.op = "get_extreme_value_analysis" =>
           \A ev \in SuccessfulExtremeRecords :
               IF ret.args[1].ok
               THEN ev.goodness_of_fit.ks_p_value = ret.args[1].val.pvalue
               ELSE /\ ev.goodness_of_fit.fit_quality = "unknown"
                    /\ ev.distribution_params \in {f.val : f \in gumbel_r_fit(data)}
                    /\ DOMAIN ev.return_values = {PeriodKeys[i].key : i \in 1..Len(PeriodKeys)}

C24_Witness ==
    /\ IsCall("get_extreme_value_analysis")
    /\ SuccessfulExtremeRecords # {}
    /\ ret.args[1].ok /\ ret.args[1].val.pvalue = Rat(5, 100)
    /\ ret.out.val.goodness_of_fit.fit_quality = "poor"

\* the positions of the stored entries that carry a top-level 'error'
ErrorEntries == {i \in 1..Len(results.parameters) : "error" \in DOMAIN results.parameters[i][2]}

\* a stored assessment whose fit or regression failed
Degraded(entry) ==
    /\ "error" \notin DOMAIN entry
    /\ \/ "error" \in DOMAIN entry.extreme_values
       \/ "error" \in DOMAIN entry.trend_analysis

\* C25: in the summary of a completed query, successful_analyses +
\* failed_analyses = total_parameters = the number of distinct requested
\* parameters; failed_analyses counts exactly the entries with a top-level
\* 'error' (an assessment with a failed fit or regression counts as
\* successful), and overall_risk_levels has successful_analyses entries.
C25_SummaryCountsAddUp ==
    q_pc = "returned" =>
        /\ results.summary.successful_analyses + results.summary.failed_analyses
               = results.summary.total_parameters
        /\ results.summary.total_parameters
               = Cardinality({query.parameters[j] : j \in 1..Len(query.parameters)})
        /\ results.summary.failed_analyses = Cardinality(ErrorEntries)
        /\ Len(results.summary.overall_risk_levels) = results.summary.successful_analyses

C25_Witness ==
    /\ q_pc = "returned"
    /\ results.summary.total_parameters = 2
    /\ results.summary.failed_analyses = 1
    /\ \E i \in 1..Len(results.parameters) : Degraded(results.parameters[i][2])

\* the risk categories of the successful assessments, in the order of the
\* stored entries
SuccessfulCategories ==
    LET done == SelectSeq(results.parameters, LAMBDA item : "error" \notin DOMAIN item[2])
    IN  [i \in 1..Len(done) |-> done[i][2].risk_category]

\* how often category c occurs among the successful assessments
Votes(c) == Cardinality({i \in 1..Len(SuccessfulCategories) : SuccessfulCategories[i] = c})

\* the position at which category c occurs first
FirstVote(c) ==
    CHOOSE i \in 1..Len(SuccessfulCategories) :
        /\ SuccessfulCategories[i] = c
        /\ \A j \in 1..(i - 1) : SuccessfulCategories[j] # c

C27_OfflineSeriesIsSeeded ==
    ret.op = "get_historical_data" /\ IsStr(ret.args[1]) /\ ret.args[2] >= 0 =>
        /\ ret.out.ok
        /\ ret.out.val = generate_mock_historical_data(ret.args[1], ret.args[2]).val
        /\ Len(ret.out.val) = ret.args[2]
        /\ kept.times = 2 => ret.out = kept.call.out

\* the stored entries a key finding may come from: successful assessments
\* whose trend is significant
SignificantEntries ==
    {i \in 1..Len(results.parameters) :
        /\ "error" \notin DOMAIN results.parameters[i][2]
        /\ "error" \notin DOMAIN results.parameters[i][2].trend_analysis
        /\ results.parameters[i][2].trend_analysis.significant
        /\ PBelow05(results.parameters[i][2].trend_analysis.p_value)}

\* C28: every entry of key_findings belongs to a parameter that was analysed
\* successfully and whose trend is significant (p_value < 0.05); a parameter
\* whose interpretation reads 'No significant trend detected' has no entry.
C28_KeyFindingsAreSignificant ==
    q_pc = "returned" =>
        /\ \A k \in 1..Len(results.summary.key_findings) :
               \E i \in SignificantEntries :
                   results.summary.key_findings[k]
                       = results.parameters[i][1] \o ": "
                             \o results.parameters[i][2].interpretation.trend
        /\ \A i \in 1..Len(results.parameters) :
               "error" \notin DOMAIN results.parameters[i][2]
               /\ results.parameters[i][2].interpretation.trend = "No significant trend detected"
                   => \A k \in 1..Len(results.summary.key_findings) :
                          results.summary.key_findings[k]
                              # results.parameters[i][1] \o ": No significant trend detected"

\* validate_inputs was called on the query's inputs and found nothing
ValidatedClean == ret.op = "validate_inputs" /\ ret.out.ok /\ ret.out.val = <<>>

\* the location lacks a coordinate, or one that float() refuses, or one out of range
UnusableLocation(location) ==
    \/ {"lat", "lon"} \ DOMAIN location # {}
    \/ location.lat = NotNumeric \/ location.lon = NotNumeric
    \/ ~(Le(Fin(-90), location.lat) /\ Le(location.lat, Fin(90)))
    \/ ~(Le(Fin(-180), location.lon) /\ Le(location.lon, Fin(180)))

\* the text has four digits, two digits and two digits, joined by hyphens
YearMonthDayForm(date) == date \in {"2024-07-15", "2024-02-30"}

\* C29 as stated: after validate_inputs returned an empty list, process_query
\* on the same inputs does not raise; and validate_inputs reports an error
\* whenever the location lacks lat or lon or they are not numeric or out of
\* range, the date is not of the form YYYY-MM-DD, the parameter list is empty
\* or a parameter is not in the available catalogue.
C29_ValidationReportsEveryDefect ==
    /\ ValidatedClean => q_pc # "raised"
    /\ ret.op = "validate_inputs"
       /\ (\/ UnusableLocation(ret.args[1])
           \/ ~YearMonthDayForm(ret.args[2])
           \/ ret.args[3] = <<>>
           \/ \E i \in 1..Len(ret.args[3]) : ret.args[3][i] \notin AvailableParameters)
           => ret.out.ok /\ ret.out.val # <<>>

\* C29, amended: the same, with the date's defect being that
\* strptime(date, '%Y-%m-%d') refuses it (it accepts a month or day of one digit).
C29_ValidationReportsRefusedDate ==
    /\ ValidatedClean => q_pc # "raised"
    /\ ret.op = "validate_inputs"
       /\ (\/ UnusableLocation(ret.args[1])
           \/ ret.args[2] \notin {"2024-07-15", "2024-7-5"}
           \/ ret.args[3] = <<>>
           \/ \E i \in 1..Len(ret.args[3]) : ret.args[3][i] \notin AvailableParameters)
           => ret.out.ok /\ ret.out.val # <<>>

C29_Witness ==
    /\ ValidatedClean
    /\ q_pc = "returned"
    /\ query.date = "2024-7-5"
    /\ query.location = [lat |-> Fin(90), lon |-> Fin(-180)]
    /\ Len(results.parameters) = 1

\* the stored assessments
StoredAssessments ==
    {results.parameters[i][2] : i \in {j \in 1..Len(results.parameters) :
                                          "error" \notin DOMAIN results.parameters[j][2]}}

\* C30: in every successful assessment the interpretation reads 'Very
\* consistent conditions' exactly when risk_category is 'Low', a sample with a
\* mean of 0 included, and interpretation.risk_level names risk_category.
C30_VariabilityAgreesWithCategory ==
    \A a \in StoredAssessments :
        /\ (a.interpretation.variability = "Very consistent conditions")
               <=> (a.risk_category = "Low")
        /\ a.interpretation.risk_level = "Risk level: " \o a.risk_category
====
